---------------------------- MODULE Spec2Model ----------------------------
(***************************************************************************)
(* Model of nvutils::CameraManipulator, src/nvutils/camera_manipulator.cpp *)
(*                                                                         *)
(* A C++ float is modelled as a fixed-point number: the integer x stands   *)
(* for the real x / Scale.  Three integers outside the modelled range      *)
(* stand for the IEEE values NaN, +Inf and -Inf, and every arithmetic      *)
(* operator below propagates them the way IEEE arithmetic does.  Products  *)
(* and quotients round to the nearest step.  std::tan, std::atan and the   *)
(* sine and cosine inside glm::rotate are piecewise linear between exact   *)
(* knots; the inputs the specifications draw hit the knots.                *)
(***************************************************************************)
EXTENDS Integers, Sequences, FiniteSets, TLC

\* ------------------------------------------------------------------------
\* float
\* ------------------------------------------------------------------------
Scale == 1000
NaN == -2147483647
PInf == 2147483647
NInf == -2147483646

IsNaN(x) == x = NaN
IsInf(x) == x = PInf \/ x = NInf
IsFinite(x) == ~IsNaN(x) /\ ~IsInf(x)

\* F applied to the value of v: v is evaluated once and named, as the code
\* evaluates an argument or a local variable once
Let1(v, F(_)) == CHOOSE r \in {F(x) : x \in {v}} : TRUE

Abs(n) == IF n < 0 THEN -n ELSE n
Sgn(n) == IF n > 0 THEN 1 ELSE IF n < 0 THEN -1 ELSE 0
\* a / b rounded to the nearest integer, a >= 0, b > 0
RoundDiv(a, b) == (a + (b \div 2)) \div b

\* IEEE comparisons: every comparison with NaN is false (so x != y is true)
FLt(x, y) == ~IsNaN(x) /\ ~IsNaN(y) /\ x < y
FGt(x, y) == FLt(y, x)
FLe(x, y) == ~IsNaN(x) /\ ~IsNaN(y) /\ x <= y
FGe(x, y) == FLe(y, x)
FEq(x, y) == ~IsNaN(x) /\ ~IsNaN(y) /\ x = y
FNe(x, y) == ~FEq(x, y)

FNeg(x) == IF IsNaN(x) THEN NaN ELSE IF x = PInf THEN NInf ELSE IF x = NInf THEN PInf ELSE -x
FAbs(x) == IF IsNaN(x) THEN NaN ELSE IF IsInf(x) THEN PInf ELSE Abs(x)

FAdd(x, y) ==
  IF IsNaN(x) \/ IsNaN(y) THEN NaN
  ELSE IF IsInf(x) THEN (IF IsInf(y) /\ y # x THEN NaN ELSE x)
  ELSE IF IsInf(y) THEN y
  ELSE x + y
FSub(x, y) == FAdd(x, FNeg(y))

\* |a * b| / Scale for a >= b >= 0, without an intermediate above 2^31
MulAbs(a, b) == (a \div Scale) * b + RoundDiv((a % Scale) * b, Scale)
FMul(x, y) ==
  IF IsNaN(x) \/ IsNaN(y) THEN NaN
  ELSE IF IsInf(x) \/ IsInf(y)
    THEN (IF x = 0 \/ y = 0 THEN NaN
          ELSE IF (x > 0) = (y > 0) THEN PInf ELSE NInf)
  ELSE LET a == Abs(x)
           b == Abs(y)
           m == IF a >= b THEN MulAbs(a, b) ELSE MulAbs(b, a)
       IN  Sgn(x) * Sgn(y) * m

\* a * Scale / b for a >= 0, b > 0; a large divisor is scaled down first
DivAbs(a, b) ==
  LET k  == (b \div 1000000) + 1
      bs == b \div k
      a2 == a \div k
  IN  (a2 \div bs) * Scale + RoundDiv((a2 % bs) * Scale, bs)
FDiv(x, y) ==
  IF IsNaN(x) \/ IsNaN(y) THEN NaN
  ELSE IF IsInf(x) THEN (IF IsInf(y) THEN NaN
                         ELSE IF (x > 0) = (y >= 0) THEN PInf ELSE NInf)
  ELSE IF IsInf(y) THEN 0
  ELSE IF y = 0 THEN (IF x = 0 THEN NaN ELSE IF x > 0 THEN PInf ELSE NInf)
  ELSE Sgn(x) * Sgn(y) * DivAbs(Abs(x), Abs(y))

\* std::min / std::max and glm::min / glm::max / glm::clamp
FMin(a, b) == IF FLt(b, a) THEN b ELSE a
FMax(a, b) == IF FLt(a, b) THEN b ELSE a
FClamp(x, lo, hi) == FMin(FMax(x, lo), hi)
\* glm::sign
FSign(x) == (IF FLt(0, x) THEN 1 ELSE 0) - (IF FLt(x, 0) THEN 1 ELSE 0)

\* floor(sqrt(n)) by Newton's iteration, n >= 0
RECURSIVE NewtonSqrt(_, _)
NewtonSqrt(n, g) ==
  LET h == (g + n \div g) \div 2
  IN  IF h >= g THEN g ELSE NewtonSqrt(n, h)
ISqrt(n) == IF n <= 0 THEN 0 ELSE NewtonSqrt(n, n)
\* sqrt(n) rounded to the nearest integer
ISqrtR(n) == Let1(ISqrt(n), LAMBDA r : IF n - r * r > r THEN r + 1 ELSE r)

\* ------------------------------------------------------------------------
\* glm::vec2 / glm::vec3: tuples of floats
\* ------------------------------------------------------------------------
Vec3(x, y, z) == <<x, y, z>>
V3(x, y, z) == <<x * Scale, y * Scale, z * Scale>>
V2(x, y) == <<x * Scale, y * Scale>>
VAdd(a, b) == <<FAdd(a[1], b[1]), FAdd(a[2], b[2]), FAdd(a[3], b[3])>>
VSub(a, b) == <<FSub(a[1], b[1]), FSub(a[2], b[2]), FSub(a[3], b[3])>>
VScale(s, a) == <<FMul(s, a[1]), FMul(s, a[2]), FMul(s, a[3])>>
VNeg(a) == <<FNeg(a[1]), FNeg(a[2]), FNeg(a[3])>>
Dot(a, b) == FAdd(FAdd(FMul(a[1], b[1]), FMul(a[2], b[2])), FMul(a[3], b[3]))
Cross(a, b) ==
  <<FSub(FMul(a[2], b[3]), FMul(b[2], a[3])),
    FSub(FMul(a[3], b[1]), FMul(b[3], a[1])),
    FSub(FMul(a[1], b[2]), FMul(b[1], a[2]))>>
VecFinite(a) == IsFinite(a[1]) /\ IsFinite(a[2]) /\ IsFinite(a[3])
VecHasNaN(a) == IsNaN(a[1]) \/ IsNaN(a[2]) \/ IsNaN(a[3])
\* vec == vec: every component compares equal (false on NaN)
VEq(a, b) == FEq(a[1], b[1]) /\ FEq(a[2], b[2]) /\ FEq(a[3], b[3])
VNe(a, b) == ~VEq(a, b)
\* the same for glm::vec2
VEq2(a, b) == FEq(a[1], b[1]) /\ FEq(a[2], b[2])
VNe2(a, b) == ~VEq2(a, b)
VScale2(s, a) == <<FMul(s, a[1]), FMul(s, a[2])>>

MaxAbs3(a) ==
  LET x == Abs(a[1])
      y == Abs(a[2])
      z == Abs(a[3])
  IN  IF x >= y /\ x >= z THEN x ELSE IF y >= z THEN y ELSE z
\* glm::length: sqrt(dot(v, v)); long vectors are scaled down before squaring
Length(a) ==
  IF VecHasNaN(a) THEN NaN
  ELSE IF ~VecFinite(a) THEN PInf
  ELSE LET m == MaxAbs3(a)
           k == (m \div 20000) + 1
       IN  k * ISqrtR((a[1] \div k) * (a[1] \div k) + (a[2] \div k) * (a[2] \div k)
                      + (a[3] \div k) * (a[3] \div k))
Distance(a, b) == Length(VSub(b, a))
\* glm::normalize: v * inversesqrt(dot(v, v)); the zero vector gives 0 * inf = NaN
Normalize(a) ==
  Let1(Length(a), LAMBDA len :
    IF IsNaN(len) \/ len = 0 THEN <<NaN, NaN, NaN>>
    ELSE <<FDiv(a[1], len), FDiv(a[2], len), FDiv(a[3], len)>>)
\* glm::mix(x, y, a) = x * (1 - a) + y * a
Mix(x, y, a) == FAdd(FMul(x, FSub(Scale, a)), FMul(y, a))
VMix(x, y, a) == <<Mix(x[1], y[1], a), Mix(x[2], y[2], a), Mix(x[3], y[3], a)>>
VMix2(x, y, a) == <<Mix(x[1], y[1], a), Mix(x[2], y[2], a)>>


\* ------------------------------------------------------------------------
\* std::tan, std::atan, and the cosine and sine of glm::rotate
\* ------------------------------------------------------------------------
\* the line through the knots p and q, at x
Lerp(p, q, x) == p[2] + RoundDiv(Abs((x - p[1]) * (q[2] - p[2])), q[1] - p[1]) * Sgn(q[2] - p[2])
RECURSIVE Interp(_, _, _)
Interp(knots, i, x) ==
  IF i + 1 >= Len(knots) \/ x <= knots[i + 1][1]
    THEN Lerp(knots[i], knots[i + 1], x)
    ELSE Interp(knots, i + 1, x)

\* tan of an angle in degrees; exact at 0, 15, 30, 45, 60, 75, 85, 89, 89.5
TanKnots ==
  << <<0, 0>>, <<15000, 268>>, <<30000, 577>>, <<45000, 1000>>, <<60000, 1732>>,
     <<75000, 3732>>, <<85000, 11430>>, <<89000, 57290>>, <<89500, 114589>> >>
TanDeg(deg) ==
  IF ~IsFinite(deg) THEN NaN
  ELSE IF deg < 0 THEN -Interp(TanKnots, 1, IF -deg > 89900 THEN 89900 ELSE -deg)
  ELSE Interp(TanKnots, 1, IF deg > 89900 THEN 89900 ELSE deg)

\* atan in degrees: the inverse of the same knots, 90 degrees at infinity
AtanKnots ==
  << <<0, 0>>, <<268, 15000>>, <<577, 30000>>, <<1000, 45000>>, <<1732, 60000>>,
     <<3732, 75000>>, <<11430, 85000>>, <<57290, 89000>>, <<114589, 89500>>,
     <<1000000, 89943>> >>
AtanAbs(r) == IF r >= 1000000 THEN 89943 ELSE Interp(AtanKnots, 1, r)
AtanDeg(r) ==
  IF IsNaN(r) THEN NaN
  ELSE IF r = PInf THEN 90000
  ELSE IF r = NInf THEN -90000
  ELSE Sgn(r) * AtanAbs(Abs(r))

\* cosine and sine of an angle given in turns (displacement * 2 pi radians);
\* exact at the multiples of an eighth of a turn
CosKnots ==
  << <<0, 1000>>, <<125, 707>>, <<250, 0>>, <<375, -707>>, <<500, -1000>>,
     <<625, -707>>, <<750, 0>>, <<875, 707>>, <<1000, 1000>> >>
SinKnots ==
  << <<0, 0>>, <<125, 707>>, <<250, 1000>>, <<375, 707>>, <<500, 0>>,
     <<625, -707>>, <<750, -1000>>, <<875, -707>>, <<1000, 0>> >>
CosTurns(x) == IF ~IsFinite(x) THEN NaN ELSE Interp(CosKnots, 1, x % Scale)
SinTurns(x) == IF ~IsFinite(x) THEN NaN ELSE Interp(SinKnots, 1, x % Scale)

\* glm::rotate(mat4(1), angle, axis) * vec4(v, 0): v turned about the
\* normalized axis (Rodrigues' formula, which is the matrix glm builds)
Rotate(turns, axis, v) ==
  Let1(Normalize(axis), LAMBDA a :
  Let1(CosTurns(turns), LAMBDA c :
  Let1(SinTurns(turns), LAMBDA s :
    VAdd(VAdd(VScale(c, v), VScale(s, Cross(a, v))),
         VScale(FMul(Dot(a, v), FSub(Scale, c)), a)))))

\* glm::lookAt (right handed): the rows s, u, -f and the translation
LookAt(eye, center, up) ==
  Let1(Normalize(VSub(center, eye)), LAMBDA f :
  Let1(Normalize(Cross(f, up)), LAMBDA s :
  Let1(Cross(s, f), LAMBDA u :
    <<s, u, VNeg(f), <<FNeg(Dot(s, eye)), FNeg(Dot(u, eye)), Dot(f, eye)>> >>)))
\* glm::mat3(lookAt(...)) * v
Mat3Mul(mat, v) == <<Dot(mat[1], v), Dot(mat[2], v), Dot(mat[3], v)>>


\* ------------------------------------------------------------------------
\* CameraConstants, enumerations and CameraManipulator::Camera
\* ------------------------------------------------------------------------
\* EPSILON = 1e-6f and MIN_DISTANCE = 0.000001f, in units of 1e-9
EPSILON_NANO == 1000
MIN_DISTANCE_NANO == 1000
NanoPerStep == 1000000000 \div Scale
\* the smallest fixed-point number that is not below c nano-units:
\* for a fixed-point x, x < c holds exactly when x < CeilSteps(c)
CeilSteps(c) == (c + NanoPerStep - 1) \div NanoPerStep
\* the largest fixed-point number that is not above c nano-units:
\* for a fixed-point x, x > c holds exactly when x > FloorSteps(c)
FloorSteps(c) == c \div NanoPerStep
LtEpsilon(x) == FLt(x, CeilSteps(EPSILON_NANO))
GtEpsilon(x) == FGt(x, FloorSteps(EPSILON_NANO))
\* MIN_ASPECT_RATIO = EPSILON, as the nearest fixed-point number
MIN_ASPECT_RATIO == RoundDiv(EPSILON_NANO, NanoPerStep)
LtMinDistance(x) == FLt(x, CeilSteps(MIN_DISTANCE_NANO))
\* MIN_FOV = 0.01f, MAX_FOV = 179.0f (degrees)
MIN_FOV == 10
MAX_FOV == 179000
\* MIN_ORTHOGRAPHIC_SIZE = 0.01f
MIN_ORTHOGRAPHIC_SIZE == 10
\* MAX_DOLLY_DISPLACEMENT = 0.99f
MAX_DOLLY_DISPLACEMENT == 990
\* DEFAULT_ANIMATION_DURATION = 0.5 (seconds)
DEFAULT_ANIMATION_DURATION == 500

Modes == {"Examine", "Fly", "Walk"}
Actions == {"NoAction", "Orbit", "Dolly", "Pan", "LookAround"}
ProjectionTypes == {"Perspective", "Orthographic"}

\* struct Camera with its default member initialisers
DefaultCamera ==
  [eye |-> V3(10, 10, 10), ctr |-> V3(0, 0, 0), up |-> V3(0, 1, 0), fov |-> 60 * Scale,
   nearFar |-> <<1, 100000 * Scale>>, orthMag |-> V2(5, 5),
   projectionType |-> "Perspective"]

\* Camera::operator!= and operator== (field-wise float comparison)
CameraNe(a, b) ==
  \/ VNe(a.eye, b.eye) \/ VNe(a.ctr, b.ctr) \/ VNe(a.up, b.up) \/ FNe(a.fov, b.fov)
  \/ VNe2(a.nearFar, b.nearFar) \/ a.projectionType # b.projectionType
  \/ VNe2(a.orthMag, b.orthMag)
CameraEq(a, b) ==
  /\ VEq(a.eye, b.eye) /\ VEq(a.ctr, b.ctr) /\ VEq(a.up, b.up) /\ FEq(a.fov, b.fov)
  /\ VEq2(a.nearFar, b.nearFar) /\ a.projectionType = b.projectionType
  /\ VEq2(a.orthMag, b.orthMag)

isValidPosition(pos) == \A i \in 1..3 : ~IsNaN(pos[i]) /\ ~IsInf(pos[i])
isValidDirection(dir) == isValidPosition(dir) /\ GtEpsilon(Length(dir))
validateCamera(cam) ==
  IF ~isValidPosition(cam.eye) \/ ~isValidPosition(cam.ctr) \/ ~isValidDirection(cam.up)
    THEN FALSE
  ELSE IF LtMinDistance(Distance(cam.eye, cam.ctr)) THEN FALSE
  ELSE IF FLt(cam.fov, MIN_FOV) \/ FGt(cam.fov, MAX_FOV) THEN FALSE
  ELSE TRUE

\* ------------------------------------------------------------------------
\* Camera::getString and Camera::setFromString.  A text is the sequence of
\* its characters.
\* ------------------------------------------------------------------------
DigitChars == <<"0", "1", "2", "3", "4", "5", "6", "7", "8", "9">>
IsDigit(c) == \E d \in 1..10 : DigitChars[d] = c
DigitValue(c) == (CHOOSE d \in 1..10 : DigitChars[d] = c) - 1

RECURSIVE FormatNat(_)
FormatNat(n) ==
  IF n < 10 THEN <<DigitChars[n + 1]>>
  ELSE Append(FormatNat(n \div 10), DigitChars[(n % 10) + 1])
\* the digits after the point of f / Scale, 0 < f < Scale, without the
\* trailing zeros
FormatFraction(f) ==
  IF f % 100 = 0 THEN <<DigitChars[(f \div 100) + 1]>>
  ELSE IF f % 10 = 0 THEN <<DigitChars[(f \div 100) + 1], DigitChars[((f \div 10) % 10) + 1]>>
  ELSE <<DigitChars[(f \div 100) + 1], DigitChars[((f \div 10) % 10) + 1],
         DigitChars[(f % 10) + 1]>>
\* two digits after the point, the rest dropped
FormatFloat_TwoDecimals(x) ==
  IF IsNaN(x) THEN <<"n", "a", "n">>
  ELSE IF x = PInf THEN <<"i", "n", "f">>
  ELSE IF x = NInf THEN <<"-", "i", "n", "f">>
  ELSE (IF x < 0 THEN <<"-">> ELSE <<>>) \o FormatNat(Abs(x) \div Scale) \o <<".">>
       \o <<DigitChars[((Abs(x) % Scale) \div 100) + 1],
            DigitChars[(((Abs(x) % Scale) \div 10) % 10) + 1]>>
\* fmt's "{}" of a float: the shortest decimal text that reads back as the
\* same float, without a point when the value is whole; the values of the
\* model lie in the range fmt prints without an exponent
FormatFloat(x) ==
  IF IsNaN(x) THEN <<"n", "a", "n">>
  ELSE IF x = PInf THEN <<"i", "n", "f">>
  ELSE IF x = NInf THEN <<"-", "i", "n", "f">>
  ELSE (IF x < 0 THEN <<"-">> ELSE <<>>) \o FormatNat(Abs(x) \div Scale)
       \o (IF Abs(x) % Scale = 0 THEN <<>> ELSE <<".">> \o FormatFraction(Abs(x) % Scale))

\* static_cast<int>(projectionType) and back
ProjectionInt(t) == IF t = "Perspective" THEN 0 ELSE 1
ProjectionOf(n) ==
  IF n = 0 THEN "Perspective" ELSE IF n = 1 THEN "Orthographic" ELSE "Unnamed"

\* "{a, b, c}" for the texts <<a, b, c>>
RECURSIVE JoinComma(_)
JoinComma(texts) ==
  IF Len(texts) = 1 THEN texts[1]
  ELSE texts[1] \o <<",", " ">> \o JoinComma(Tail(texts))
Braced(texts) == <<"{">> \o JoinComma(texts) \o <<"}">>
\* the seven groups of the format, in its order
CameraGroups(cam) ==
  << Braced(<<FormatFloat(cam.eye[1]), FormatFloat(cam.eye[2]), FormatFloat(cam.eye[3])>>),
     Braced(<<FormatFloat(cam.ctr[1]), FormatFloat(cam.ctr[2]), FormatFloat(cam.ctr[3])>>),
     Braced(<<FormatFloat(cam.up[1]), FormatFloat(cam.up[2]), FormatFloat(cam.up[3])>>),
     Braced(<<FormatFloat(cam.fov)>>),
     Braced(<<FormatFloat(cam.nearFar[1]), FormatFloat(cam.nearFar[2])>>),
     Braced(<<FormatFloat(cam.orthMag[1]), FormatFloat(cam.orthMag[2])>>),
     Braced(<<FormatNat(ProjectionInt(cam.projectionType))>>) >>
getString(cam) == JoinComma(CameraGroups(cam))

\* the format of the sscanf call: "%f" is one conversion, " " matches any
\* run of white space, every other character matches itself
CameraFormat ==
  JoinComma(<< Braced(<< <<"%f">>, <<"%f">>, <<"%f">> >>),
               Braced(<< <<"%f">>, <<"%f">>, <<"%f">> >>),
               Braced(<< <<"%f">>, <<"%f">>, <<"%f">> >>),
               Braced(<< <<"%f">> >>),
               Braced(<< <<"%f">>, <<"%f">> >>),
               Braced(<< <<"%f">>, <<"%f">> >>),
               Braced(<< <<"%f">> >>) >>)

IsSpace(c) == c = " "
RECURSIVE SkipSpace(_, _)
SkipSpace(text, j) ==
  IF j <= Len(text) /\ IsSpace(text[j]) THEN SkipSpace(text, j + 1) ELSE j
RECURSIVE DigitsEnd(_, _)
DigitsEnd(text, j) ==
  IF j <= Len(text) /\ IsDigit(text[j]) THEN DigitsEnd(text, j + 1) ELSE j
\* the number written by the digits text[a] .. text[b - 1]
RECURSIVE NatOf(_, _, _)
NatOf(text, a, b) ==
  IF a >= b THEN 0 ELSE NatOf(text, a, b - 1) * 10 + DigitValue(text[b - 1])
DigitAt(text, j, b) == IF j < b THEN DigitValue(text[j]) ELSE 0
\* the digits text[a] .. text[b - 1] after the point, in steps of 1 / Scale,
\* rounded to the nearest step
FractionOf(text, a, b) ==
  DigitAt(text, a, b) * 100 + DigitAt(text, a + 1, b) * 10 + DigitAt(text, a + 2, b)
  + (IF DigitAt(text, a + 3, b) >= 5 THEN 1 ELSE 0)
StartsWith(text, j, word) ==
  /\ j + Len(word) - 1 <= Len(text)
  /\ \A k \in 1..Len(word) : text[j + k - 1] = word[k]
\* digits, then a point and digits, from j on (the sign has been read):
\* <<matched, value, next position>>
ScanDecimal(text, j) ==
  Let1(DigitsEnd(text, j), LAMBDA e :
    IF e <= Len(text) /\ text[e] = "."
      THEN Let1(DigitsEnd(text, e + 1), LAMBDA f :
             IF e = j /\ f = e + 1 THEN <<FALSE, 0, j>>
             ELSE <<TRUE, NatOf(text, j, e) * Scale + FractionOf(text, e + 1, f), f>>)
    ELSE IF e = j THEN <<FALSE, 0, j>>
    ELSE <<TRUE, NatOf(text, j, e) * Scale, e>>)
\* a number without its sign, from j on
ScanUnsigned(text, j) ==
  IF StartsWith(text, j, <<"n", "a", "n">>) THEN <<TRUE, NaN, j + 3>>
  ELSE IF StartsWith(text, j, <<"i", "n", "f">>) THEN <<TRUE, PInf, j + 3>>
  ELSE ScanDecimal(text, j)
\* the conversion %f: white space is skipped, then a sign and a number are
\* read as strtof reads them (the texts of the model hold no exponent)
ScanFloat(text, j0) ==
  Let1(SkipSpace(text, j0), LAMBDA j :
    IF j <= Len(text) /\ text[j] = "-"
      THEN Let1(ScanUnsigned(text, j + 1), LAMBDA r : <<r[1], FNeg(r[2]), r[3]>>)
    ELSE IF j <= Len(text) /\ text[j] = "+" THEN ScanUnsigned(text, j + 1)
    ELSE ScanUnsigned(text, j))
\* the directives of the format before the next conversion, from format[i]
\* and text[j] on: <<all matched, next directive, next position>>
RECURSIVE MatchLiterals(_, _, _, _)
MatchLiterals(format, i, text, j) ==
  IF i > Len(format) \/ format[i] = "%f" THEN <<TRUE, i, j>>
  ELSE IF IsSpace(format[i]) THEN MatchLiterals(format, i + 1, text, SkipSpace(text, j))
  ELSE IF j <= Len(text) /\ text[j] = format[i] THEN MatchLiterals(format, i + 1, text, j + 1)
  ELSE <<FALSE, i, j>>
\* sscanf: the values converted before the first directive that fails
RECURSIVE Scan(_, _, _, _, _)
Scan(format, i, text, j, val) ==
  Let1(MatchLiterals(format, i, text, j), LAMBDA at :
    IF ~at[1] \/ at[2] > Len(format) THEN val
    ELSE Let1(ScanFloat(text, at[3]), LAMBDA r :
           IF r[1] THEN Scan(format, at[2] + 1, text, r[3], Append(val, r[2])) ELSE val))
\* static_cast<int> of a float drops the fraction
FloatToInt(x) == IF x < 0 THEN -((-x) \div Scale) ELSE x \div Scale

\* <<the value returned, the Camera after the call>>
setFromString(cam, text) ==
  IF text = <<>> THEN <<FALSE, cam>>
  ELSE Let1(Scan(CameraFormat, 1, text, 1, <<>>), LAMBDA val :
    Let1(Len(val), LAMBDA result :
      IF result >= 9
        THEN <<TRUE,
               [eye |-> <<val[1], val[2], val[3]>>,
                ctr |-> <<val[4], val[5], val[6]>>,
                up |-> <<val[7], val[8], val[9]>>,
                fov |-> IF result >= 10 THEN val[10] ELSE cam.fov,
                nearFar |-> IF result >= 12 THEN <<val[11], val[12]>> ELSE cam.nearFar,
                orthMag |-> IF result >= 14 THEN <<val[13], val[14]>> ELSE cam.orthMag,
                projectionType |->
                  IF result >= 15 THEN ProjectionOf(FloatToInt(val[15]))
                  ELSE cam.projectionType]>>
      ELSE <<FALSE, cam>>))

\* ------------------------------------------------------------------------
\* CameraManipulator: the object is the record m, one field per data member;
\* m_snapshot (std::optional<Camera>) is <<>> or <<camera>>.  Every method is
\* an operator from the object before the call to the object after it; now
\* is what getSystemTime() returns during the call.
\* ------------------------------------------------------------------------
NoSnapshot == <<>>
HasSnapshot(m) == m.m_snapshot # <<>>
Snapshot(m) == m.m_snapshot[1]

updateLookatMatrix(m) ==
  [m EXCEPT !.m_matrix = LookAt(m.m_current.eye, m.m_current.ctr, m.m_current.up)]

\* applyCameraInstant without the assignment of m_current
applyCameraInstant_KeepsPose(m, camera) ==
  updateLookatMatrix([m EXCEPT !.m_snapshot = NoSnapshot, !.m_isAnimating = FALSE])

\* applyCameraInstant without m_snapshot.reset()
applyCameraInstant_KeepsSnapshot(m, camera) ==
  updateLookatMatrix([m EXCEPT !.m_current = camera, !.m_isAnimating = FALSE])

\* applyCameraInstant without the reset of m_isAnimating
applyCameraInstant_KeepsAnimating(m, camera) ==
  updateLookatMatrix([m EXCEPT !.m_current = camera, !.m_snapshot = NoSnapshot])

applyCameraInstant(m, camera) ==
  updateLookatMatrix([m EXCEPT !.m_current = camera, !.m_snapshot = NoSnapshot,
                               !.m_isAnimating = FALSE])

\* Quadratic Bezier curve: B(t) = (1-t)^2*p0 + 2*(1-t)*t*p1 + t^2*p2
computeBezier(t, p0, p1, p2) ==
  Let1(FSub(Scale, t), LAMBDA u :
    VAdd(VAdd(VScale(FMul(u, u), p0), VScale(FMul(FMul(2 * Scale, u), t), p1)),
         VScale(FMul(t, t), p2)))

findBezierPoints(m) ==
  IF ~HasSnapshot(m) THEN m
  ELSE
    LET p0 == m.m_current.eye
        p2 == m.m_goal.eye
    IN
    Let1(VScale(Scale \div 2, VAdd(m.m_goal.ctr, Snapshot(m).ctr)), LAMBDA pi :
    Let1(VScale(Scale \div 2, VAdd(p0, p2)), LAMBDA mid :
    Let1(FMul(Scale \div 2, FAdd(Length(VSub(p0, pi)), Length(VSub(p2, pi)))), LAMBDA radius :
    Let1(VSub(mid, pi), LAMBDA toMid0 :
    Let1(IF LtEpsilon(Dot(toMid0, toMid0)) THEN V3(0, 0, 1) ELSE toMid0, LAMBDA toMid :
    Let1(VAdd(pi, VScale(radius, Normalize(toMid))), LAMBDA pc :
    Let1(VSub(VScale(2 * Scale, pc), VScale(Scale \div 2, VAdd(p0, p2))), LAMBDA p1a :
    Let1(Normalize(VAdd(Snapshot(m).up, m.m_goal.up)), LAMBDA avgUp :
    Let1(Dot(VSub(mid, p1a), avgUp), LAMBDA projection :
      [m EXCEPT !.m_bezier = <<p0, VAdd(p1a, VScale(projection, avgUp)), p2>>])))))))))

startAnimationTo(m, camera, now) ==
  Let1(findBezierPoints([m EXCEPT !.m_goal = camera, !.m_snapshot = <<m.m_current>>,
                                  !.m_startTime = now, !.m_isAnimating = TRUE]), LAMBDA m1 :
  Let1(Length(VSub(Snapshot(m1).eye, Snapshot(m1).ctr)), LAMBDA d0 :
  Let1(Length(VSub(m1.m_goal.eye, m1.m_goal.ctr)), LAMBDA d1 :
    [m1 EXCEPT !.m_animDollyZoom0 = FMul(d0, TanDeg(FMul(Snapshot(m1).fov, Scale \div 2))),
               !.m_animDollyZoom1 = FMul(d1, TanDeg(FMul(m1.m_goal.fov, Scale \div 2)))])))

\* applyUserChange without the reset of m_isAnimating
applyUserChange_KeepsAnimating(m, updateMatrix) ==
  IF updateMatrix THEN updateLookatMatrix(m) ELSE m

\* applyUserChange that never refreshes the matrix
applyUserChange_NoRefresh(m, updateMatrix) ==
  [m EXCEPT !.m_isAnimating = FALSE]

applyUserChange(m, updateMatrix) ==
  LET m1 == [m EXCEPT !.m_isAnimating = FALSE]
  IN  IF updateMatrix THEN updateLookatMatrix(m1) ELSE m1

\* setCamera without the test of the projection type
setCamera_AnyProjection(m, camera, instantSet, now) ==
  IF ~validateCamera(camera) THEN m
  ELSE
    Let1([camera EXCEPT !.up = Normalize(camera.up)], LAMBDA cam :
    Let1([m EXCEPT !.m_isAnimating = FALSE], LAMBDA m1 :
      IF instantSet \/ FEq(m1.m_duration, 0) THEN applyCameraInstant(m1, cam)
      ELSE IF CameraNe(cam, m1.m_current) THEN startAnimationTo(m1, cam, now)
      ELSE m1))

setCamera(m, camera, instantSet, now) ==
  IF ~validateCamera(camera) THEN m
  ELSE
    Let1([camera EXCEPT !.up = Normalize(camera.up)], LAMBDA cam :
    Let1([m EXCEPT !.m_isAnimating = FALSE], LAMBDA m1 :
    Let1(IF cam.projectionType # m1.m_current.projectionType THEN TRUE ELSE instantSet,
         LAMBDA instant :
      IF instant \/ FEq(m1.m_duration, 0) THEN applyCameraInstant(m1, cam)
      ELSE IF CameraNe(cam, m1.m_current) THEN startAnimationTo(m1, cam, now)
      ELSE m1)))

setLookat(m, eye, center, up, instantSet, now) ==
  Let1([m.m_current EXCEPT !.eye = eye, !.ctr = center, !.up = up], LAMBDA cam :
    IF ~validateCamera(cam) THEN m
    ELSE setCamera(m, cam, instantSet, now))

\* matrix is <<column 0, column 1, column 2, column 3>> of the glm::mat4
\* (upper three rows); glm::mat3(matrix) * (0, 0, -centerDistance).
\* The pose setMatrix builds from the matrix:
setMatrixCamera(m, matrix, centerDistance) ==
  LET forwardVector == VAdd(VAdd(VScale(0, matrix[1]), VScale(0, matrix[2])),
                            VScale(FNeg(centerDistance), matrix[3]))
      eye == matrix[4]
  IN  [m.m_current EXCEPT !.eye = eye, !.ctr = VAdd(eye, forwardVector), !.up = V3(0, 1, 0)]

\* setMatrix without the validation of the pose
setMatrix_Unvalidated(m, matrix, instantSet, centerDistance, now) ==
  Let1(setMatrixCamera(m, matrix, centerDistance), LAMBDA camera :
    IF instantSet THEN applyCameraInstant(m, camera)
    ELSE startAnimationTo(m, camera, now))

setMatrix(m, matrix, instantSet, centerDistance, now) ==
  Let1(setMatrixCamera(m, matrix, centerDistance), LAMBDA camera :
    IF ~validateCamera(camera) THEN m
    ELSE IF instantSet THEN applyCameraInstant(m, camera)
    ELSE startAnimationTo(m, camera, now))

\* updateAnim without the return of the idle case: the time of the call is
\* kept as the start time
updateAnim_KeepsTime(m, currentTimeMs, now) ==
  [m EXCEPT !.m_startTime = IF currentTimeMs < 0 THEN now ELSE currentTimeMs]

\* currentTimeMs < 0 asks for the system time; elapse is in seconds
updateAnim(m, currentTimeMs, now) ==
  Let1(IF currentTimeMs < 0 THEN now ELSE currentTimeMs, LAMBDA timeMs :
  Let1(FDiv((timeMs - m.m_startTime) * Scale, 1000 * Scale), LAMBDA elapse :
    IF ~m.m_isAnimating THEN m
    ELSE
      Let1(FMin(FDiv(elapse, m.m_duration), Scale), LAMBDA t0 :
      Let1(FMul(FMul(FMul(t0, t0), t0),
                FAdd(FMul(t0, FSub(FMul(t0, 6 * Scale), 15 * Scale)), 10 * Scale)), LAMBDA t :
        IF FGe(t, Scale)
          THEN updateLookatMatrix([m EXCEPT !.m_current = m.m_goal, !.m_isAnimating = FALSE,
                                            !.m_snapshot = NoSnapshot])
        ELSE IF ~HasSnapshot(m) THEN [m EXCEPT !.m_isAnimating = FALSE]
        ELSE
          Let1(VMix(Snapshot(m).ctr, m.m_goal.ctr, t), LAMBDA ctr :
          Let1(VMix(Snapshot(m).up, m.m_goal.up, t), LAMBDA up :
          Let1(computeBezier(t, m.m_bezier[1], m.m_bezier[2], m.m_bezier[3]), LAMBDA eye :
          Let1(Length(VSub(eye, ctr)), LAMBDA distance :
          Let1(Mix(m.m_animDollyZoom0, m.m_animDollyZoom1, t), LAMBDA k :
          Let1(IF GtEpsilon(distance) /\ FGt(k, 0)
                 THEN FClamp(FMul(2 * Scale, AtanDeg(FDiv(k, distance))), MIN_FOV, MAX_FOV)
                 ELSE Mix(Snapshot(m).fov, m.m_goal.fov, t), LAMBDA fov :
            updateLookatMatrix(
              [m EXCEPT !.m_current.ctr = ctr, !.m_current.up = up, !.m_current.eye = eye,
                        !.m_current.fov = fov,
                        !.m_current.nearFar =
                          VMix2(Snapshot(m).nearFar, m.m_goal.nearFar, t),
                        !.m_current.orthMag =
                          VMix2(Snapshot(m).orthMag, m.m_goal.orthMag, t)])))))))))))


\* ------------------------------------------------------------------------
\* helpers of the motion algorithms
\* ------------------------------------------------------------------------
getAspectRatio(m) == FDiv(m.m_windowSize[1] * Scale, m.m_windowSize[2] * Scale)
\* tan(getRadFov() * 0.5f)
TanHalfFov(m) == TanDeg(FMul(m.m_current.fov, Scale \div 2))

\* <<width, height>>
getViewDimensions(m) ==
  IF m.m_current.projectionType = "Orthographic"
    THEN <<FMul(m.m_current.orthMag[1], 2 * Scale), FMul(m.m_current.orthMag[2], 2 * Scale)>>
  ELSE
    Let1(Length(VSub(m.m_current.eye, m.m_current.ctr)), LAMBDA distance :
    Let1(FMul(distance, TanHalfFov(m)), LAMBDA halfHeight :
    Let1(FMul(2 * Scale, halfHeight), LAMBDA viewHeight :
    Let1(FMul(viewHeight, FMax(getAspectRatio(m), MIN_ASPECT_RATIO)), LAMBDA viewWidth :
      <<viewWidth, viewHeight>>))))

\* [forward, right, up]
computeCameraFrame(m) ==
  Let1(VSub(m.m_current.ctr, m.m_current.eye), LAMBDA viewDelta :
    IF LtEpsilon(Length(viewDelta))
      THEN [forward |-> V3(0, 0, -1), right |-> V3(1, 0, 0), up |-> V3(0, 1, 0)]
    ELSE
      Let1(Normalize(viewDelta), LAMBDA forward :
      Let1(Cross(forward, m.m_current.up), LAMBDA right0 :
      Let1(IF FLt(FAbs(forward[2]), 990) THEN V3(0, 1, 0) ELSE V3(1, 0, 0), LAMBDA fallbackUp :
      Let1(IF LtEpsilon(Dot(right0, right0)) THEN Cross(forward, fallbackUp) ELSE right0,
           LAMBDA right1 :
      Let1(Normalize(right1), LAMBDA right :
        [forward |-> forward, right |-> right, up |-> Cross(right, forward)]))))))

projectToGroundPlane(m, vec) ==
  Let1(Dot(m.m_current.up, m.m_current.up), LAMBDA upLen2 :
    IF LtEpsilon(upLen2) THEN vec
    ELSE VSub(vec, VScale(FDiv(Dot(vec, m.m_current.up), upLen2), m.m_current.up)))

zoomOrthographic(m, factor) ==
  [m EXCEPT !.m_current.orthMag =
     <<FMax(FMul(m.m_current.orthMag[1], factor), MIN_ORTHOGRAPHIC_SIZE),
       FMax(FMul(m.m_current.orthMag[2], factor), MIN_ORTHOGRAPHIC_SIZE)>>]

\* Set and clamp FOV between 0.01 and 179 degrees
setFov(m, fovDegree) ==
  [m EXCEPT !.m_current.fov = FMin(FMax(fovDegree, MIN_FOV), MAX_FOV)]

\* pan that moves the eye and leaves the centre
pan_EyeOnly(m, displacement) ==
  IF VEq2(displacement, <<0, 0>>) THEN m
  ELSE
    Let1(IF m.m_mode = "Fly" THEN VScale2(-Scale, displacement) ELSE displacement, LAMBDA d :
    Let1(computeCameraFrame(m), LAMBDA frame :
    Let1(getViewDimensions(m), LAMBDA view :
      [m EXCEPT !.m_current.eye =
         VAdd(m.m_current.eye,
              VAdd(VScale(view[1], VScale(FNeg(d[1]), frame.right)),
                   VScale(view[2], VScale(d[2], frame.up))))])))

\* ------------------------------------------------------------------------
\* pan, orbit, dolly
\* ------------------------------------------------------------------------
pan(m, displacement) ==
  IF VEq2(displacement, <<0, 0>>) THEN m
  ELSE
    Let1(IF m.m_mode = "Fly" THEN VScale2(-Scale, displacement) ELSE displacement, LAMBDA d :
    Let1(computeCameraFrame(m), LAMBDA frame :
    Let1(getViewDimensions(m), LAMBDA view :
    Let1(VAdd(VScale(view[1], VScale(FNeg(d[1]), frame.right)),
              VScale(view[2], VScale(d[2], frame.up))), LAMBDA panOffset :
      [m EXCEPT !.m_current.eye = VAdd(m.m_current.eye, panOffset),
                !.m_current.ctr = VAdd(m.m_current.ctr, panOffset)]))))

\* orbit without "centerToEye *= radius"
orbit_UnitRadius(m, displacement, invert) ==
  IF VEq2(displacement, <<0, 0>>) THEN m
  ELSE
    Let1(IF invert THEN m.m_current.eye ELSE m.m_current.ctr, LAMBDA origin :
    Let1(IF invert THEN m.m_current.ctr ELSE m.m_current.eye, LAMBDA position :
    Let1(VSub(position, origin), LAMBDA delta :
    Let1(Length(delta), LAMBDA radius :
      IF LtEpsilon(radius) THEN m
      ELSE
        Let1(Rotate(FNeg(displacement[1]), m.m_current.up, Normalize(delta)),
             LAMBDA centerToEye1 :
        Let1(Cross(m.m_current.up, centerToEye1), LAMBDA axeX :
          IF LtEpsilon(Dot(axeX, axeX)) THEN m
          ELSE
            Let1(Rotate(FNeg(displacement[2]), Normalize(axeX), centerToEye1),
                 LAMBDA rotationVec :
            Let1(IF FSign(rotationVec[1]) = FSign(centerToEye1[1])
                   THEN rotationVec ELSE centerToEye1, LAMBDA centerToEye2 :
            Let1(VAdd(centerToEye2, origin), LAMBDA newPosition :
              IF ~invert THEN [m EXCEPT !.m_current.eye = newPosition]
              ELSE [m EXCEPT !.m_current.ctr = newPosition])))))))))

\* orbit that turns the up vector towards the eye instead of moving the eye
orbit_TurnsUp(m, displacement, invert) ==
  IF VEq2(displacement, <<0, 0>>) THEN m
  ELSE [m EXCEPT !.m_current.up = Normalize(VSub(m.m_current.eye, m.m_current.ctr))]

\* the displacement is in turns: the code multiplies it by two_pi and hands
\* the radians to glm::rotate
orbit(m, displacement, invert) ==
  IF VEq2(displacement, <<0, 0>>) THEN m
  ELSE
    Let1(IF invert THEN m.m_current.eye ELSE m.m_current.ctr, LAMBDA origin :
    Let1(IF invert THEN m.m_current.ctr ELSE m.m_current.eye, LAMBDA position :
    Let1(VSub(position, origin), LAMBDA delta :
    Let1(Length(delta), LAMBDA radius :
      IF LtEpsilon(radius) THEN m
      ELSE
        Let1(Rotate(FNeg(displacement[1]), m.m_current.up, Normalize(delta)),
             LAMBDA centerToEye1 :
        Let1(Cross(m.m_current.up, centerToEye1), LAMBDA axeX :
          IF LtEpsilon(Dot(axeX, axeX)) THEN m
          ELSE
            Let1(Rotate(FNeg(displacement[2]), Normalize(axeX), centerToEye1),
                 LAMBDA rotationVec :
            Let1(IF FSign(rotationVec[1]) = FSign(centerToEye1[1])
                   THEN rotationVec ELSE centerToEye1, LAMBDA centerToEye2 :
            Let1(VAdd(VScale(radius, centerToEye2), origin), LAMBDA newPosition :
              IF ~invert THEN [m EXCEPT !.m_current.eye = newPosition]
              ELSE [m EXCEPT !.m_current.ctr = newPosition])))))))))

\* dolly that moves the centre with the eye in every mode
dolly_CenterFollows(m, displacement, keepCenterFixed) ==
  Let1(IF FGt(FAbs(displacement[1]), FAbs(displacement[2]))
         THEN displacement[1] ELSE FNeg(displacement[2]), LAMBDA largerDisplacement :
    IF m.m_current.projectionType = "Orthographic"
      THEN zoomOrthographic(m, FSub(Scale, largerDisplacement))
    ELSE
      Let1(VSub(m.m_current.ctr, m.m_current.eye), LAMBDA directionVec0 :
        IF LtMinDistance(Length(directionVec0)) THEN m
        ELSE IF FGe(largerDisplacement, MAX_DOLLY_DISPLACEMENT) THEN m
        ELSE
          Let1(VScale(largerDisplacement, directionVec0), LAMBDA directionVec :
            [m EXCEPT !.m_current.eye = VAdd(m.m_current.eye, directionVec),
                      !.m_current.ctr = VAdd(m.m_current.ctr, directionVec)])))

dolly(m, displacement, keepCenterFixed) ==
  Let1(IF FGt(FAbs(displacement[1]), FAbs(displacement[2]))
         THEN displacement[1] ELSE FNeg(displacement[2]), LAMBDA largerDisplacement :
    IF m.m_current.projectionType = "Orthographic"
      THEN zoomOrthographic(m, FSub(Scale, largerDisplacement))
    ELSE
      Let1(VSub(m.m_current.ctr, m.m_current.eye), LAMBDA directionVec0 :
      Let1(Length(directionVec0), LAMBDA length :
        IF LtMinDistance(length) THEN m
        ELSE IF FGe(largerDisplacement, MAX_DOLLY_DISPLACEMENT) THEN m
        ELSE
          Let1(VScale(largerDisplacement, directionVec0), LAMBDA directionVec1 :
          Let1(IF m.m_mode = "Walk" THEN projectToGroundPlane(m, directionVec1)
               ELSE directionVec1, LAMBDA directionVec :
          Let1([m EXCEPT !.m_current.eye = VAdd(m.m_current.eye, directionVec)], LAMBDA m1 :
            IF (m.m_mode = "Fly" \/ m.m_mode = "Walk") /\ ~keepCenterFixed
              THEN [m1 EXCEPT !.m_current.ctr = VAdd(m.m_current.ctr, directionVec)]
              ELSE m1))))))

\* setMousePosition that does not store the position
setMousePosition_Ignored(m, pos) == m

\* ------------------------------------------------------------------------
\* input entry points
\* ------------------------------------------------------------------------
setMousePosition(m, pos) == [m EXCEPT !.m_mouse = pos]

\* motion that measures the displacement from the origin of the window
\* instead of the tracked mouse position
motion_FromOrigin(m, screenDisplacement, action) ==
  Let1(<<FDiv(screenDisplacement[1], m.m_windowSize[1] * Scale),
         FDiv(screenDisplacement[2], m.m_windowSize[2] * Scale)>>,
       LAMBDA displacement :
  Let1(CASE action = "Orbit" -> orbit(m, displacement, FALSE)
         [] action = "Dolly" -> dolly(m, displacement, FALSE)
         [] action = "Pan" -> pan(m, displacement)
         [] action = "LookAround" ->
              orbit(m, <<displacement[1], FNeg(displacement[2])>>, TRUE)
         [] OTHER -> m, LAMBDA m1 :
    [applyUserChange(m1, TRUE) EXCEPT !.m_mouse = screenDisplacement]))

motion(m, screenDisplacement, action) ==
  Let1(<<FDiv(FSub(screenDisplacement[1], m.m_mouse[1]), m.m_windowSize[1] * Scale),
         FDiv(FSub(screenDisplacement[2], m.m_mouse[2]), m.m_windowSize[2] * Scale)>>,
       LAMBDA displacement :
  Let1(CASE action = "Orbit" -> orbit(m, displacement, FALSE)
         [] action = "Dolly" -> dolly(m, displacement, FALSE)
         [] action = "Pan" -> pan(m, displacement)
         [] action = "LookAround" ->
              orbit(m, <<displacement[1], FNeg(displacement[2])>>, TRUE)
         [] OTHER -> m, LAMBDA m1 :
    [applyUserChange(m1, TRUE) EXCEPT !.m_mouse = screenDisplacement]))

keyMotion(m, delta, action) ==
  IF VEq2(delta, <<0, 0>>) THEN m
  ELSE
    Let1(m.m_speed, LAMBDA movementSpeed :
    Let1(computeCameraFrame(m), LAMBDA frame :
    Let1(VScale2(movementSpeed, delta), LAMBDA d :
    Let1(IF action = "Dolly"
           THEN Let1(VScale(d[1], frame.forward), LAMBDA v :
                  IF m.m_mode = "Walk" THEN projectToGroundPlane(m, v) ELSE v)
         ELSE IF action = "Pan"
           THEN VAdd(VScale(d[1], frame.right), VScale(d[2], frame.up))
         ELSE V3(0, 0, 0), LAMBDA keyboardMovementVector :
      applyUserChange(
        [m EXCEPT !.m_current.eye = VAdd(m.m_current.eye, keyboardMovementVector),
                  !.m_current.ctr = VAdd(m.m_current.ctr, keyboardMovementVector)], TRUE)))))

\* mouseMoveAction with shift tested before the chord
mouseMoveAction_ShiftFirst(m, inputs) ==
  IF ~inputs.lmb /\ ~inputs.rmb /\ ~inputs.mmb THEN "NoAction"
  ELSE IF inputs.lmb
    THEN IF inputs.shift THEN "Dolly"
         ELSE IF (inputs.ctrl /\ inputs.shift) \/ inputs.alt
           THEN (IF m.m_mode = "Examine" THEN "LookAround" ELSE "Orbit")
         ELSE IF inputs.ctrl THEN "Pan"
         ELSE (IF m.m_mode = "Examine" THEN "Orbit" ELSE "LookAround")
  ELSE IF inputs.mmb THEN "Pan"
  ELSE IF inputs.rmb THEN "Dolly"
  ELSE "NoAction"

\* mouseMoveAction with the right button tested before the middle button
mouseMoveAction_RightFirst(m, inputs) ==
  IF ~inputs.lmb /\ ~inputs.rmb /\ ~inputs.mmb THEN "NoAction"
  ELSE IF inputs.lmb
    THEN IF (inputs.ctrl /\ inputs.shift) \/ inputs.alt
           THEN (IF m.m_mode = "Examine" THEN "LookAround" ELSE "Orbit")
         ELSE IF inputs.shift THEN "Dolly"
         ELSE IF inputs.ctrl THEN "Pan"
         ELSE (IF m.m_mode = "Examine" THEN "Orbit" ELSE "LookAround")
  ELSE IF inputs.rmb THEN "Dolly"
  ELSE IF inputs.mmb THEN "Pan"
  ELSE "NoAction"

\* the action mouseMove selects and returns
mouseMoveAction(m, inputs) ==
  IF ~inputs.lmb /\ ~inputs.rmb /\ ~inputs.mmb THEN "NoAction"
  ELSE IF inputs.lmb
    THEN IF (inputs.ctrl /\ inputs.shift) \/ inputs.alt
           THEN (IF m.m_mode = "Examine" THEN "LookAround" ELSE "Orbit")
         ELSE IF inputs.shift THEN "Dolly"
         ELSE IF inputs.ctrl THEN "Pan"
         ELSE (IF m.m_mode = "Examine" THEN "Orbit" ELSE "LookAround")
  ELSE IF inputs.mmb THEN "Pan"
  ELSE IF inputs.rmb THEN "Dolly"
  ELSE "NoAction"

mouseMove(m, screenDisplacement, inputs) ==
  IF ~inputs.lmb /\ ~inputs.rmb /\ ~inputs.mmb
    THEN setMousePosition(m, screenDisplacement)
  ELSE
    Let1(mouseMoveAction(m, inputs), LAMBDA curAction :
      IF curAction # "NoAction" THEN motion(m, screenDisplacement, curAction) ELSE m)

\* wheel that dollies whether shift is held or not
wheel_AlwaysDollies(m, value, inputs) ==
  IF FEq(value, 0) THEN m
  ELSE
    Let1(FDiv(FMul(value, FAbs(value)), m.m_windowSize[1] * Scale), LAMBDA deltaX :
      applyUserChange(dolly(m, <<deltaX, deltaX>>, inputs.ctrl), TRUE))

wheel(m, value, inputs) ==
  IF FEq(value, 0) THEN m
  ELSE
    Let1(FDiv(FMul(value, FAbs(value)), m.m_windowSize[1] * Scale), LAMBDA deltaX :
      IF inputs.shift
        THEN IF m.m_current.projectionType = "Orthographic"
               THEN applyUserChange(zoomOrthographic(m, FAdd(Scale, deltaX)), TRUE)
               ELSE applyUserChange(setFov(m, FAdd(m.m_current.fov, value)), FALSE)
        ELSE applyUserChange(dolly(m, <<deltaX, deltaX>>, inputs.ctrl), TRUE))


\* ------------------------------------------------------------------------
\* fit, projection conversion and the configuration setters
\* ------------------------------------------------------------------------
\* the loop over the 8 corners of the box, corner i and those after it
RECURSIVE fitTight(_, _, _, _, _, _)
fitTight(i, boxHalfSize, mView, xfov, yfov, idealDistance) ==
  IF i >= 8 THEN idealDistance
  ELSE
    Let1(Mat3Mul(mView,
                 <<IF (i % 2) = 1 THEN boxHalfSize[1] ELSE FNeg(boxHalfSize[1]),
                   IF ((i \div 2) % 2) = 1 THEN boxHalfSize[2] ELSE FNeg(boxHalfSize[2]),
                   IF ((i \div 4) % 2) = 1 THEN boxHalfSize[3] ELSE FNeg(boxHalfSize[3])>>),
         LAMBDA vct :
    Let1(FMax(FAdd(FDiv(FAbs(vct[2]), yfov), FAbs(vct[3])), idealDistance), LAMBDA d1 :
    Let1(FMax(FAdd(FDiv(FAbs(vct[1]), xfov), FAbs(vct[3])), d1), LAMBDA d2 :
    Let1(IF FLt(vct[3], 0) THEN d2 ELSE idealDistance, LAMBDA next :
      fitTight(i + 1, boxHalfSize, mView, xfov, yfov, next)))))

\* fit that places the eye along the previous viewing direction
fitLookat_AlongView(m, boxMin, boxMax, tightFit, aspect) ==
  Let1(VScale(Scale \div 2, VSub(boxMax, boxMin)), LAMBDA boxHalfSize :
  Let1(VScale(Scale \div 2, VAdd(boxMin, boxMax)), LAMBDA boxCenter :
  Let1(TanHalfFov(m), LAMBDA yfov :
  Let1(FMul(yfov, aspect), LAMBDA xfov :
  Let1(Let1(Length(boxHalfSize), LAMBDA radius :
         FMax(FDiv(radius, xfov), FDiv(radius, yfov))), LAMBDA idealDistance :
    <<VSub(boxCenter,
           VScale(idealDistance, Normalize(VSub(m.m_current.ctr, m.m_current.eye)))),
      boxCenter>>)))))

\* <<newEye, boxCenter>>: the eye and the centre fit hands to setLookat
fitLookat(m, boxMin, boxMax, tightFit, aspect) ==
  Let1(VScale(Scale \div 2, VSub(boxMax, boxMin)), LAMBDA boxHalfSize :
  Let1(VScale(Scale \div 2, VAdd(boxMin, boxMax)), LAMBDA boxCenter :
  Let1(TanHalfFov(m), LAMBDA yfov :
  Let1(FMul(yfov, aspect), LAMBDA xfov :
  Let1(IF tightFit
         THEN fitTight(0, boxHalfSize, LookAt(m.m_current.eye, boxCenter, m.m_current.up),
                       xfov, yfov, 0)
         ELSE Let1(Length(boxHalfSize), LAMBDA radius :
                FMax(FDiv(radius, xfov), FDiv(radius, yfov))), LAMBDA idealDistance :
    <<VSub(boxCenter, VScale(idealDistance, Normalize(VSub(boxCenter, m.m_current.eye)))),
      boxCenter>>)))))

\* the pose fit hands to setLookat
fitCamera(m, boxMin, boxMax, tightFit, aspect) ==
  Let1(fitLookat(m, boxMin, boxMax, tightFit, aspect), LAMBDA l :
    [m.m_current EXCEPT !.eye = l[1], !.ctr = l[2]])

\* fit that hands the previous centre of interest to setLookat
fit_KeepsCenter(m, boxMin, boxMax, instantFit, tightFit, aspect, now) ==
  Let1(fitLookat(m, boxMin, boxMax, tightFit, aspect), LAMBDA l :
    setLookat(m, l[1], m.m_current.ctr, m.m_current.up, instantFit, now))

fit(m, boxMin, boxMax, instantFit, tightFit, aspect, now) ==
  Let1(fitLookat(m, boxMin, boxMax, tightFit, aspect), LAMBDA l :
    setLookat(m, l[1], l[2], m.m_current.up, instantFit, now))

convertToPerspective(m) ==
  IF m.m_current.projectionType = "Perspective" THEN m
  ELSE
    Let1(Length(VSub(m.m_current.eye, m.m_current.ctr)), LAMBDA distance :
    Let1(IF FGt(distance, 0) /\ FGt(m.m_current.orthMag[2], 0)
           THEN [m EXCEPT !.m_current.fov =
                   FClamp(FMul(2 * Scale, AtanDeg(FDiv(m.m_current.orthMag[2], distance))),
                          MIN_FOV, MAX_FOV)]
           ELSE m, LAMBDA m1 :
      [m1 EXCEPT !.m_current.projectionType = "Perspective"]))

convertToOrthographic(m) ==
  IF m.m_current.projectionType = "Orthographic" THEN m
  ELSE
    Let1(Length(VSub(m.m_current.eye, m.m_current.ctr)), LAMBDA distance :
    Let1(FMul(distance, TanHalfFov(m)), LAMBDA ymag :
    Let1(IF FGt(distance, 0)
           THEN [m EXCEPT !.m_current.orthMag = <<FMul(ymag, getAspectRatio(m)), ymag>>]
           ELSE m, LAMBDA m1 :
      [m1 EXCEPT !.m_current.projectionType = "Orthographic"])))

adjustOrthographicAspect(m) ==
  IF m.m_current.projectionType # "Orthographic" THEN m
  ELSE
    Let1(getAspectRatio(m), LAMBDA aspect :
    Let1(m.m_current.orthMag[2], LAMBDA height :
    Let1(FMul(height, aspect), LAMBDA width :
      IF FLe(aspect, 0) THEN m
      ELSE IF FLe(width, 0) THEN m
      ELSE IF GtEpsilon(FAbs(FSub(width, m.m_current.orthMag[1])))
        THEN [m EXCEPT !.m_current.orthMag = <<width, height>>]
      ELSE m)))

\* winSize is a glm::uvec2
setWindowSize(m, winSize) ==
  IF winSize[1] = 0 \/ winSize[2] = 0 THEN m ELSE [m EXCEPT !.m_windowSize = winSize]
setSpeed(m, speed) == [m EXCEPT !.m_speed = speed]
setClipPlanes(m, nearFar) ==
  IF FLe(nearFar[1], 0) \/ FLe(nearFar[2], nearFar[1]) THEN m
  ELSE [m EXCEPT !.m_current.nearFar = nearFar]
setOrthographicMagnitudes(m, mag) ==
  IF FLe(mag[1], 0) \/ FLe(mag[2], 0) THEN m ELSE [m EXCEPT !.m_current.orthMag = mag]
setAnimationDuration(m, val) == IF FLt(val, 0) THEN m ELSE [m EXCEPT !.m_duration = val]
setMode(m, mode) == [m EXCEPT !.m_mode = mode]
setProjectionType(m, type) == [m EXCEPT !.m_current.projectionType = type]
isAnimated(m) == m.m_isAnimating
getCamera(m) == m.m_current

\* the object after CameraManipulator::CameraManipulator()
Constructed ==
  updateLookatMatrix(
    [m_matrix |-> <<V3(1, 0, 0), V3(0, 1, 0), V3(0, 0, 1), V3(0, 0, 0)>>,
     m_current |-> DefaultCamera, m_goal |-> DefaultCamera, m_snapshot |-> NoSnapshot,
     m_bezier |-> <<V3(0, 0, 0), V3(0, 0, 0), V3(0, 0, 0)>>,
     m_animDollyZoom0 |-> 0, m_animDollyZoom1 |-> 0, m_startTime |-> 0,
     m_duration |-> DEFAULT_ANIMATION_DURATION, m_isAnimating |-> FALSE,
     m_windowSize |-> <<1, 1>>, m_speed |-> 3 * Scale, m_mouse |-> V2(0, 0),
     m_mode |-> "Examine"])




\* ------------------------------------------------------------------------
\* The state machine.  m is the CameraManipulator object, clock the system
\* clock in milliseconds (what getSystemTime() returns), last the call that
\* produced the state: its name, its arguments, its return value, the object
\* before the call, the system time during the call and whether an animation
\* was active when it was made.  driven records an animation
\* that setCamera started from idle and the timestamps handed to updateAnim
\* since.  calls and ticks count the calls made and the advances of the
\* clock; limit is the number of calls the behaviour may make.
\* ------------------------------------------------------------------------
VARIABLES m, clock, last, driven, calls, ticks, limit
vars == <<m, clock, last, driven, calls, ticks, limit>>

MaxCalls == 2
MaxFrames == 3
MaxTicks == 1
FrameMs == DEFAULT_ANIMATION_DURATION \div 2
TickMs == 2 * FrameMs
ClockStart == FrameMs
\* how far before the start of the animation a supplied timestamp may lie
MaxLagMs == FrameMs

NoInputs == [lmb |-> FALSE, mmb |-> FALSE, rmb |-> FALSE, shift |-> FALSE, ctrl |-> FALSE,
             alt |-> FALSE]
AllInputs == [lmb : BOOLEAN, mmb : BOOLEAN, rmb : BOOLEAN, shift : BOOLEAN, ctrl : BOOLEAN,
              alt : BOOLEAN]
NoCall ==
  [op |-> "construct", camera |-> DefaultCamera, instantSet |-> TRUE, vec |-> V3(0, 0, 0),
   boxMax |-> V3(0, 0, 0), object |-> DefaultCamera, text |-> <<>>,
   action |-> "NoAction", inputs |-> NoInputs, value |-> 0, ret |-> "NoAction",
   wasAnimating |-> FALSE, before |-> Constructed, now |-> ClockStart]
Call(op) ==
  [NoCall EXCEPT !.op = op, !.wasAnimating = m.m_isAnimating, !.before = m, !.now = clock]
NotDriven == [active |-> FALSE, from |-> DefaultCamera, to |-> DefaultCamera, stamps |-> <<>>]

\* poses handed to setCamera: accepted ones (unit up, longer up, orthographic,
\* NaN field of view) and one for each way validateCamera rejects
PoseUnit == [DefaultCamera EXCEPT !.eye = V3(0, 0, 4)]
PoseLongUp == [DefaultCamera EXCEPT !.eye = V3(4, 0, 0), !.up = V3(0, 2, 0), !.fov = 90 * Scale]
PoseOrtho == [DefaultCamera EXCEPT !.eye = V3(0, 0, 4), !.projectionType = "Orthographic",
                                   !.orthMag = V2(2, 2)]
\* validateCamera compares fov with < and >, which a NaN passes
PoseNaNFov == [PoseUnit EXCEPT !.fov = NaN]
ValidPoses == {DefaultCamera, PoseUnit, PoseLongUp, PoseOrtho, PoseNaNFov}
InvalidPoses ==
  {[PoseUnit EXCEPT !.eye = <<NaN, 0, 4 * Scale>>],
   [PoseUnit EXCEPT !.ctr = <<0, PInf, 0>>],
   [PoseUnit EXCEPT !.up = <<0, NaN, 0>>],
   [PoseUnit EXCEPT !.up = V3(0, 0, 0)],
   [PoseUnit EXCEPT !.ctr = V3(0, 0, 4)],
   [PoseUnit EXCEPT !.fov = MIN_FOV - 1],
   [PoseUnit EXCEPT !.fov = MAX_FOV + 1]}
Poses == ValidPoses \cup InvalidPoses

\* <<eye, center, up>> handed to setLookat
Lookats ==
  {<<V3(4, 0, 0), V3(0, 0, 0), V3(0, 1, 0)>>,
   <<V3(0, 0, 4), V3(0, 0, 0), V3(0, 3, 0)>>,
   <<V3(1, 1, 1), V3(1, 1, 1), V3(0, 1, 0)>>,
   <<V3(4, 0, 0), V3(0, 0, 0), V3(0, 0, 0)>>,
   <<V3(4, 0, 0), <<NaN, 0, 0>>, V3(0, 1, 0)>>}

\* <<matrix, centerDistance>> handed to setMatrix: the identity rotation at
\* (0, 0, 2) with the default distance 1, the same with distance 0 (eye and
\* centre coincide), and a matrix holding NaN
Matrices ==
  {<< <<V3(1, 0, 0), V3(0, 1, 0), V3(0, 0, 1), V3(0, 0, 2)>>, Scale >>,
   << <<V3(1, 0, 0), V3(0, 1, 0), V3(0, 0, 1), V3(0, 0, 2)>>, 0 >>,
   << <<V3(1, 0, 0), V3(0, 1, 0), <<0, 0, NaN>>, V3(0, 0, 2)>>, Scale >>}

\* <<boxMin, boxMax>> handed to fit: a cube about the origin, and boxes of
\* size zero at (10, 10, 10) (the eye of the default pose) and at (0, 0, 4)
\* (the eye of PoseUnit)
Boxes ==
  {<<V3(-1, -1, -1), V3(1, 1, 1)>>, <<V3(10, 10, 10), V3(10, 10, 10)>>,
   <<V3(0, 0, 4), V3(0, 0, 4)>>}

MousePositions == {V2(1, 0), V2(0, 1)}
WindowSizes == {<<4, 4>>, <<0, 4>>}
Durations == {0, DEFAULT_ANIMATION_DURATION, -Scale}
\* timestamps handed to updateAnim: -1 asks for the system time
Timestamps == {-1} \cup {k * FrameMs : k \in 0..MaxFrames}
WheelValues == {0, Scale, -Scale}
KeyDeltas == {V2(0, 0), V2(1, 0), V2(0, 1)}

Start(n) ==
  /\ m = Constructed
  /\ clock = ClockStart
  /\ last = NoCall
  /\ driven = NotDriven
  /\ calls = 0
  /\ ticks = 0
  /\ limit = n

Init == Start(MaxCalls)

\* the system clock advances
Tick ==
  /\ ticks < MaxTicks
  /\ clock' = clock + TickMs
  /\ ticks' = ticks + 1
  /\ UNCHANGED <<m, last, driven, calls, limit>>

\* a public method is called: the object and the record of the call change
Does(m2, call) ==
  /\ calls < limit
  /\ m' = m2
  /\ last' = call
  /\ calls' = calls + 1
  /\ driven' =
       IF call.op = "setCamera" /\ ~call.instantSet /\ ~m.m_isAnimating
         THEN [active |-> TRUE, from |-> m.m_current, to |-> call.camera, stamps |-> <<>>]
       ELSE IF call.op = "updateAnim" /\ driven.active
         THEN [driven EXCEPT !.stamps = Append(@, call.value)]
       ELSE NotDriven
  /\ UNCHANGED <<clock, ticks, limit>>

SetCamera ==
  \E camera \in Poses, instantSet \in BOOLEAN :
    Does(setCamera(m, camera, instantSet, clock),
         [Call("setCamera") EXCEPT !.camera = camera, !.instantSet = instantSet])

\* last.camera is the pose setLookat hands to setCamera
SetLookat ==
  \E l \in Lookats, instantSet \in BOOLEAN :
    Does(setLookat(m, l[1], l[2], l[3], instantSet, clock),
         [Call("setLookat") EXCEPT
            !.camera = [m.m_current EXCEPT !.eye = l[1], !.ctr = l[2], !.up = l[3]],
            !.instantSet = instantSet])

\* last.camera is the pose setMatrix validates
SetMatrix ==
  \E x \in Matrices, instantSet \in BOOLEAN :
    Does(setMatrix(m, x[1], instantSet, x[2], clock),
         [Call("setMatrix") EXCEPT !.camera = setMatrixCamera(m, x[1], x[2]),
                                   !.instantSet = instantSet])

\* last.camera is the pose fit hands, through setLookat, to setCamera
Fit ==
  \E b \in Boxes, instantFit \in BOOLEAN, tightFit \in BOOLEAN :
    Does(fit(m, b[1], b[2], instantFit, tightFit, Scale, clock),
         [Call("fit") EXCEPT !.camera = fitCamera(m, b[1], b[2], tightFit, Scale),
                             !.instantSet = instantFit, !.vec = b[1],
                             !.boxMax = b[2], !.value = IF tightFit THEN 1 ELSE 0])

UpdateAnim ==
  \E ts \in Timestamps :
    /\ m.m_isAnimating /\ ts >= 0 => ts + MaxLagMs >= m.m_startTime
    /\ Does(updateAnim(m, ts, clock), [Call("updateAnim") EXCEPT !.value = ts])

\* a frame of the render loop while an animation runs: the system clock has
\* advanced by one frame and updateAnim() is called with no timestamp
Frame ==
  /\ ticks < MaxTicks
  /\ m.m_isAnimating
  /\ clock' = clock + FrameMs
  /\ ticks' = ticks + 1
  /\ m' = updateAnim(m, -1, clock + FrameMs)
  /\ last' = [Call("updateAnim") EXCEPT !.value = -1, !.now = clock + FrameMs]
  /\ driven' = NotDriven
  /\ UNCHANGED <<calls, limit>>

Motion ==
  \E pos \in MousePositions, action \in Actions :
    Does(motion(m, pos, action),
         [Call("motion") EXCEPT !.vec = <<pos[1], pos[2], 0>>, !.action = action])

KeyMotion ==
  \E delta \in KeyDeltas, action \in {"Dolly", "Pan", "NoAction"} :
    Does(keyMotion(m, delta, action),
         [Call("keyMotion") EXCEPT !.vec = <<delta[1], delta[2], 0>>, !.action = action])

MouseMove ==
  \E pos \in MousePositions, inputs \in AllInputs :
    Does(mouseMove(m, pos, inputs),
         [Call("mouseMove") EXCEPT !.vec = <<pos[1], pos[2], 0>>, !.inputs = inputs,
                                   !.ret = mouseMoveAction(m, inputs)])

Wheel ==
  \E value \in WheelValues, shift \in BOOLEAN, ctrl \in BOOLEAN :
    Does(wheel(m, value, [NoInputs EXCEPT !.shift = shift, !.ctrl = ctrl]),
         [Call("wheel") EXCEPT !.value = value,
                               !.inputs = [NoInputs EXCEPT !.shift = shift, !.ctrl = ctrl]])

SetWindowSize ==
  \E winSize \in WindowSizes :
    Does(setWindowSize(m, winSize),
         [Call("setWindowSize") EXCEPT !.vec = <<winSize[1], winSize[2], 0>>])

SetAnimationDuration ==
  \E val \in Durations :
    Does(setAnimationDuration(m, val), [Call("setAnimationDuration") EXCEPT !.value = val])

SetMode ==
  \E mode \in Modes : Does(setMode(m, mode), [Call("setMode") EXCEPT !.action = mode])

SetProjectionType ==
  \E type \in ProjectionTypes :
    Does(setProjectionType(m, type), [Call("setProjectionType") EXCEPT !.action = type])

ConvertToPerspective == Does(convertToPerspective(m), Call("convertToPerspective"))
ConvertToOrthographic == Does(convertToOrthographic(m), Call("convertToOrthographic"))

\* every entry point
Next ==
  \/ Tick
  \/ SetCamera
  \/ SetLookat
  \/ SetMatrix
  \/ Fit
  \/ UpdateAnim
  \/ Frame
  \/ Motion
  \/ KeyMotion
  \/ MouseMove
  \/ Wheel
  \/ SetWindowSize
  \/ SetAnimationDuration
  \/ SetMode
  \/ SetProjectionType
  \/ ConvertToPerspective
  \/ ConvertToOrthographic

Spec == Init /\ [][Next]_vars

\* the pose setters, the configuration and the motions an application calls
\* directly
NextPose ==
  \/ Tick
  \/ SetCamera
  \/ SetLookat
  \/ SetMatrix
  \/ Fit
  \/ UpdateAnim
  \/ Motion
  \/ KeyMotion
  \/ Wheel
  \/ SetWindowSize
  \/ SetAnimationDuration
  \/ SetProjectionType
  \/ ConvertToPerspective
  \/ ConvertToOrthographic

SpecPose == Init /\ [][NextPose]_vars

\* the input events: every button and modifier combination in every mode,
\* with and without an animation in progress
NextInput ==
  \/ SetCamera
  \/ Frame
  \/ SetMode
  \/ Motion
  \/ KeyMotion
  \/ MouseMove
  \/ Wheel

SpecInput == Init /\ [][NextInput]_vars

\* an animation driven frame by frame
NextAnim ==
  \/ Tick
  \/ SetCamera
  \/ UpdateAnim

SpecAnim == Start(MaxFrames) /\ [][NextAnim]_vars

\* dolly operations only, starting from the default (valid, perspective)
\* pose: drags with the Dolly action whose displacement is 0.98 of the
\* window, just under MAX_DOLLY_DISPLACEMENT, its opposite or a multiple, and
\* unshifted wheel steps of the same size, with and without ctrl, in every mode
MaxDollySteps == 3
\* 0.98 pixels of a window 1 pixel wide
DollyDrag == MAX_DOLLY_DISPLACEMENT - 10
\* value * |value| = 0.98
DollyWheel == MAX_DOLLY_DISPLACEMENT
DollyPositions == {<<0, 0>>, <<DollyDrag, 0>>, <<2 * DollyDrag, 0>>}

MotionDolly ==
  \E pos \in DollyPositions :
    Does(motion(m, pos, "Dolly"),
         [Call("motion") EXCEPT !.vec = <<pos[1], pos[2], 0>>, !.action = "Dolly"])

WheelDolly ==
  \E value \in {DollyWheel, -DollyWheel}, ctrl \in BOOLEAN :
    Does(wheel(m, value, [NoInputs EXCEPT !.ctrl = ctrl]),
         [Call("wheel") EXCEPT !.value = value, !.inputs = [NoInputs EXCEPT !.ctrl = ctrl]])

NextDolly ==
  \/ SetMode
  \/ MotionDolly
  \/ WheelDolly

SpecDolly == Start(MaxDollySteps) /\ [][NextDolly]_vars

\* motions that do not move the mouse: a pose is set, the mode and the
\* tracked mouse position are changed, and motion is called with the tracked
\* position.  PoseOrthoSmall is an accepted orthographic pose whose
\* magnitudes are below MIN_ORTHOGRAPHIC_SIZE.
MaxStillCalls == 3
PoseOrthoSmall == [PoseOrtho EXCEPT !.orthMag = <<MIN_ORTHOGRAPHIC_SIZE \div 2, 2 * Scale>>]
StillPoses == ValidPoses \cup {PoseOrthoSmall}
MotionActions == {"Orbit", "Dolly", "Pan", "LookAround"}

SetPose ==
  \E camera \in StillPoses :
    Does(setCamera(m, camera, TRUE, clock), [Call("setCamera") EXCEPT !.camera = camera])

SetMousePosition ==
  \E pos \in MousePositions :
    Does(setMousePosition(m, pos), [Call("setMousePosition") EXCEPT !.vec = <<pos[1], pos[2], 0>>])

MotionStill ==
  \E action \in MotionActions :
    Does(motion(m, m.m_mouse, action),
         [Call("motion") EXCEPT !.vec = <<m.m_mouse[1], m.m_mouse[2], 0>>, !.action = action])

NextStill ==
  \/ SetPose
  \/ SetMode
  \/ SetMousePosition
  \/ MotionStill

SpecStill == Start(MaxStillCalls) /\ [][NextStill]_vars

\* fit to the bounding sphere of a box, applied at once: cubes of side 2
\* about the origin (the centre of interest of every pose set), about
\* (0, 0, 2) (on the line of sight of PoseUnit, short of its centre of
\* interest) and about (5, 0, 0) (off the line of sight of every pose set)
MaxFitCalls == 3
FitBoxes ==
  {<<V3(-1, -1, -1), V3(1, 1, 1)>>, <<V3(-1, -1, 1), V3(1, 1, 3)>>,
   <<V3(4, -1, -1), V3(6, 1, 1)>>}

FitSphere ==
  \E b \in FitBoxes :
    Does(fit(m, b[1], b[2], TRUE, FALSE, Scale, clock),
         [Call("fit") EXCEPT !.camera = fitCamera(m, b[1], b[2], FALSE, Scale),
                             !.instantSet = TRUE, !.vec = b[1], !.boxMax = b[2]])

NextFit ==
  \/ SetPose
  \/ FitSphere

SpecFit == Start(MaxFitCalls) /\ [][NextFit]_vars

\* orbits: drags with the Orbit and LookAround actions over eighths of the
\* window (an eighth of a turn each, where the cosine and sine tables are
\* exact), horizontal, vertical and both, after a pose and a mode were set
MaxOrbitCalls == 3
OrbitPositions ==
  {<<Scale \div 8, 0>>, <<0, Scale \div 8>>, <<Scale \div 8, Scale \div 8>>,
   <<-(Scale \div 4), 0>>, <<0, -(Scale \div 8)>>, <<0, Scale \div 4>>}

MotionOrbit ==
  \E pos \in OrbitPositions, action \in {"Orbit", "LookAround"} :
    Does(motion(m, pos, action),
         [Call("motion") EXCEPT !.vec = <<pos[1], pos[2], 0>>, !.action = action])

NextOrbit ==
  \/ SetPose
  \/ SetMode
  \/ MotionOrbit

SpecOrbit == Start(MaxOrbitCalls) /\ [][NextOrbit]_vars

\* Camera::getString and Camera::setFromString on a Camera object of the
\* caller: last.object is the object before the call, last.camera the object
\* after it, so the next call finds the fields the last one left
MaxStringCalls == 2
\* a pose whose fields are negative, fractional and all unlike the defaults
PoseFraction ==
  [eye |-> <<-1500, 250, 10001>>, ctr |-> <<1000, -2000, 3125>>, up |-> <<0, 707, -707>>,
   fov |-> 45500, nearFar |-> <<100, 250500>>, orthMag |-> <<1250, 750>>,
   projectionType |-> "Orthographic"]
StringPoses == ValidPoses \cup {PoseFraction}
\* the first n groups of the text of a pose: all seven are what getString
\* returns, fewer are the older encodings and texts cut short
GroupsText(cam, n) == IF n = 0 THEN <<>> ELSE JoinComma(SubSeq(CameraGroups(cam), 1, n))
SetFromString ==
  \E cam \in StringPoses, n \in {0, 2, 3, 4, 5, 6, 7} :
    Does(m, [Call("setFromString") EXCEPT
               !.object = last.camera,
               !.camera = setFromString(last.camera, GroupsText(cam, n))[2],
               !.text = GroupsText(cam, n),
               !.ret = IF setFromString(last.camera, GroupsText(cam, n))[1]
                         THEN "true" ELSE "false"])
NextString == SetFromString
SpecString == Start(MaxStringCalls) /\ [][NextString]_vars

\* the setters of the window size, the clip planes, the orthographic
\* magnitudes and the animation duration, with arguments they accept,
\* arguments they reject, and NaN
MaxSettingCalls == 3
ClipPlanes ==
  {<<Scale \div 10, 1000 * Scale>>, <<0, 10 * Scale>>, <<-10, Scale>>, V2(1, 1), V2(2, 1),
   <<NaN, Scale>>}
OrthographicMagnitudes == {V2(1, 2), <<0, Scale>>, <<Scale, -Scale>>, <<NaN, Scale>>}
SettingDurations == Durations \cup {NaN}
SetClipPlanes ==
  \E nearFar \in ClipPlanes :
    Does(setClipPlanes(m, nearFar),
         [Call("setClipPlanes") EXCEPT !.vec = <<nearFar[1], nearFar[2], 0>>])
SetOrthographicMagnitudes ==
  \E mag \in OrthographicMagnitudes :
    Does(setOrthographicMagnitudes(m, mag),
         [Call("setOrthographicMagnitudes") EXCEPT !.vec = <<mag[1], mag[2], 0>>])
SetDuration ==
  \E val \in SettingDurations :
    Does(setAnimationDuration(m, val), [Call("setAnimationDuration") EXCEPT !.value = val])
NextSettings == SetWindowSize \/ SetClipPlanes \/ SetOrthographicMagnitudes \/ SetDuration
SpecSettings == Start(MaxSettingCalls) /\ [][NextSettings]_vars

\* poses that validateCamera accepts whose clip planes or orthographic
\* magnitudes are not positive, and the calls that write those two fields
MaxLimitCalls == 3
PoseNoDepth == [PoseUnit EXCEPT !.nearFar = V2(0, 0)]
PoseFarFirst == [PoseUnit EXCEPT !.nearFar = V2(10, 1)]
PoseNegativeMag == [PoseOrtho EXCEPT !.orthMag = <<-Scale, 0>>]
LimitPoses == {PoseUnit, PoseLongUp, PoseOrtho, PoseNoDepth, PoseFarFirst, PoseNegativeMag}
SetLimitPose ==
  \E camera \in LimitPoses, instantSet \in BOOLEAN :
    Does(setCamera(m, camera, instantSet, clock),
         [Call("setCamera") EXCEPT !.camera = camera, !.instantSet = instantSet])
NextLimits ==
  \/ SetLimitPose
  \/ SetClipPlanes
  \/ SetOrthographicMagnitudes
  \/ ConvertToPerspective
  \/ ConvertToOrthographic
  \/ UpdateAnim
SpecLimits == Start(MaxLimitCalls) /\ [][NextLimits]_vars

\* wheel steps with and without shift and ctrl, in both projections, with
\* the field of view at the default and half a degree from either bound
MaxWheelCalls == 3
PoseWide == [PoseUnit EXCEPT !.fov = MAX_FOV - (Scale \div 2)]
PoseNarrow == [PoseUnit EXCEPT !.fov = MIN_FOV + (Scale \div 2)]
WheelPoses == StillPoses \cup {PoseWide, PoseNarrow}
WheelSteps == {Scale, -Scale, Scale \div 2, -(Scale \div 2)}
SetWheelPose ==
  \E camera \in WheelPoses :
    Does(setCamera(m, camera, TRUE, clock), [Call("setCamera") EXCEPT !.camera = camera])
WheelStep ==
  \E value \in WheelSteps, shift \in BOOLEAN, ctrl \in BOOLEAN :
    Does(wheel(m, value, [NoInputs EXCEPT !.shift = shift, !.ctrl = ctrl]),
         [Call("wheel") EXCEPT !.value = value,
                               !.inputs = [NoInputs EXCEPT !.shift = shift, !.ctrl = ctrl]])
NextWheel == SetWheelPose \/ SetMode \/ WheelStep
SpecWheel == Start(MaxWheelCalls) /\ [][NextWheel]_vars

\* the degenerate geometric cases: a view direction parallel to up, and two
\* poses whose up vectors are opposite, animated from one to the other
\* with the system clock as the time source
MaxDegenerateCalls == 3
PoseAlongUp == [DefaultCamera EXCEPT !.eye = V3(0, 4, 0)]
PoseUpsideDown == [DefaultCamera EXCEPT !.eye = V3(4, 0, 0), !.up = V3(0, -1, 0)]
DegeneratePoses == {PoseUnit, PoseAlongUp, PoseUpsideDown}
SetDegeneratePose ==
  \E camera \in DegeneratePoses, instantSet \in BOOLEAN :
    Does(setCamera(m, camera, instantSet, clock),
         [Call("setCamera") EXCEPT !.camera = camera, !.instantSet = instantSet])
NextDegenerate == SetDegeneratePose \/ Frame \/ Motion \/ KeyMotion
SpecDegenerate == Start(MaxDegenerateCalls) /\ [][NextDegenerate]_vars

\* animations between poses that differ in ctr, nearFar and orthMag, ticked
\* with supplied timestamps on either side of the recorded start time
MaxEarlyCalls == 3
PoseAside ==
  [PoseUnit EXCEPT !.ctr = V3(2, 0, 0), !.nearFar = <<Scale \div 10, 1000 * Scale>>,
                   !.orthMag = V2(1, 1)]
EarlyPoses == {PoseUnit, PoseAside}
SetEarlyPose ==
  \E camera \in EarlyPoses, instantSet \in BOOLEAN :
    Does(setCamera(m, camera, instantSet, clock),
         [Call("setCamera") EXCEPT !.camera = camera, !.instantSet = instantSet])
NextEarly == Tick \/ SetEarlyPose \/ UpdateAnim
SpecEarly == Start(MaxEarlyCalls) /\ [][NextEarly]_vars

\* mouse pans and key motions, in the three modes, from perspective and
\* orthographic poses and from a pose that looks along its up vector
MaxPanCalls == 3
PanPoses == {DefaultCamera, PoseUnit, PoseLongUp, PoseOrtho, PoseAlongUp}
PanPositions == {V2(1, 0), V2(0, 1), <<Scale \div 2, -(Scale \div 4)>>}
SetPanPose ==
  \E camera \in PanPoses :
    Does(setCamera(m, camera, TRUE, clock), [Call("setCamera") EXCEPT !.camera = camera])
MotionPan ==
  \E pos \in PanPositions :
    Does(motion(m, pos, "Pan"),
         [Call("motion") EXCEPT !.vec = <<pos[1], pos[2], 0>>, !.action = "Pan"])
NextPan == SetPanPose \/ SetMode \/ MotionPan \/ KeyMotion
SpecPan == Start(MaxPanCalls) /\ [][NextPan]_vars

\* the projection conversions, from perspective and orthographic poses and
\* from a perspective pose one unit from its centre with a field of view of
\* one degree
MaxConvertCalls == 3
PoseClose == [DefaultCamera EXCEPT !.eye = V3(0, 0, 1), !.fov = Scale]
ConvertPoses == {PoseUnit, PoseLongUp, PoseOrtho, PoseClose}
SetConvertPose ==
  \E camera \in ConvertPoses :
    Does(setCamera(m, camera, TRUE, clock), [Call("setCamera") EXCEPT !.camera = camera])
NextConvert ==
  \/ SetConvertPose
  \/ SetWindowSize
  \/ SetOrthographicMagnitudes
  \/ ConvertToPerspective
  \/ ConvertToOrthographic
SpecConvert == Start(MaxConvertCalls) /\ [][NextConvert]_vars

\* orbits and look-arounds, from a pose that looks along its up vector too,
\* and after wheel steps that bring the eye onto the centre
MaxAroundCalls == 4
AroundPoses == {PoseUnit, PoseAlongUp, PoseClose}
AroundPositions == {<<Scale \div 8, 0>>, <<Scale \div 8, Scale \div 8>>}
SetAroundPose ==
  \E camera \in AroundPoses :
    Does(setCamera(m, camera, TRUE, clock), [Call("setCamera") EXCEPT !.camera = camera])
WheelCloser ==
  \E ctrl \in BOOLEAN :
    Does(wheel(m, -DollyWheel, [NoInputs EXCEPT !.ctrl = ctrl]),
         [Call("wheel") EXCEPT !.value = -DollyWheel,
                               !.inputs = [NoInputs EXCEPT !.ctrl = ctrl]])
MotionAround ==
  \E pos \in AroundPositions, action \in {"Orbit", "LookAround"} :
    Does(motion(m, pos, action),
         [Call("motion") EXCEPT !.vec = <<pos[1], pos[2], 0>>, !.action = action])
NextAround == SetAroundPose \/ WheelCloser \/ MotionAround
SpecAround == Start(MaxAroundCalls) /\ [][NextAround]_vars

\* fits, at once and animated, to the sphere and tight, idle and in the
\* middle of an animation that turns the up vector: a cube about the origin,
\* a box of size zero at (1, 1, 1), and a cube about the eye of PoseUnit
MaxFittingCalls == 3
PoseSideUp == [PoseUnit EXCEPT !.up = V3(1, 0, 0)]
FittingPoses == {PoseUnit, PoseSideUp}
FittingBoxes ==
  {<<V3(-1, -1, -1), V3(1, 1, 1)>>, <<V3(1, 1, 1), V3(1, 1, 1)>>,
   <<V3(-1, -1, 3), V3(1, 1, 5)>>}
SetFittingPose ==
  \E camera \in FittingPoses, instantSet \in BOOLEAN :
    Does(setCamera(m, camera, instantSet, clock),
         [Call("setCamera") EXCEPT !.camera = camera, !.instantSet = instantSet])
FitBox ==
  \E b \in FittingBoxes, instantFit \in BOOLEAN, tightFit \in BOOLEAN :
    Does(fit(m, b[1], b[2], instantFit, tightFit, Scale, clock),
         [Call("fit") EXCEPT !.camera = fitCamera(m, b[1], b[2], tightFit, Scale),
                             !.instantSet = instantFit, !.vec = b[1],
                             !.boxMax = b[2], !.value = IF tightFit THEN 1 ELSE 0])
NextFitting == SetFittingPose \/ Frame \/ FitBox
SpecFitting == Start(MaxFittingCalls) /\ [][NextFitting]_vars

\* ------------------------------------------------------------------------
\* Properties
\* ------------------------------------------------------------------------
PoseSetters == {"setCamera", "setLookat", "setMatrix", "fit"}

\* C1: a call of setCamera, setLookat, setMatrix or fit whose pose
\* validateCamera rejects leaves the whole object as it was (current, goal,
\* snapshot, isAnimating, start time, view matrix and everything else),
\* idle or animating, for either value of instantSet.
C1_RejectedPoseChangesNothing ==
  (last.op \in PoseSetters /\ ~validateCamera(last.camera)) => m = last.before
\* a pose with eye = ctr was handed to setMatrix, for an animated change, while
\* an animation was running
C1_Witness ==
  /\ last.op = "setMatrix" /\ ~last.instantSet /\ last.wasAnimating
  /\ ~validateCamera(last.camera)
  /\ m.m_isAnimating

\* the timestamps start at 0 and increase
Spanning(stamps) ==
  /\ Len(stamps) > 0
  /\ stamps[1] = 0
  /\ \A i \in 1..(Len(stamps) - 1) : stamps[i] < stamps[i + 1]
\* m_duration in milliseconds
DurationMs == (m.m_duration * 1000) \div Scale

\* C2: idle at A with duration d > 0, setCamera(B, false) with B valid,
\* B != A and of the same projection type, then updateAnim with increasing
\* timestamps from 0 on: the animation is active while the timestamp is below
\* d, and once it is d or more current is B, field for field, and the
\* animation has ended.
C2_DrivenAnimationReachesGoal ==
  (/\ driven.active
   /\ validateCamera(driven.to)
   /\ CameraNe(driven.to, driven.from)
   /\ driven.to.projectionType = driven.from.projectionType
   /\ m.m_duration > 0
   /\ Spanning(driven.stamps))
  => IF driven.stamps[Len(driven.stamps)] >= DurationMs
       THEN m.m_current = driven.to /\ ~isAnimated(m)
       ELSE isAnimated(m)

HasButton(inputs) == inputs.lmb \/ inputs.mmb \/ inputs.rmb
\* the call is a user-motion entry point
UserMotion(call) ==
  \/ call.op \in {"motion", "keyMotion", "wheel"}
  \/ call.op = "mouseMove" /\ HasButton(call.inputs)
\* the call is a user-motion entry point that moves something: keyMotion with a
\* delta of (0, 0) and wheel with a value of 0 are left out
UserMotionMoving(call) ==
  \/ call.op = "motion"
  \/ call.op = "keyMotion" /\ (call.vec[1] # 0 \/ call.vec[2] # 0)
  \/ call.op = "wheel" /\ call.value # 0
  \/ call.op = "mouseMove" /\ HasButton(call.inputs)
\* a manipulator at rest holding the pose, the mouse position and the settings
\* of b
AtRest(b) ==
  updateLookatMatrix([Constructed EXCEPT !.m_current = b.m_current, !.m_mouse = b.m_mouse,
                                         !.m_windowSize = b.m_windowSize,
                                         !.m_speed = b.m_speed, !.m_mode = b.m_mode])
\* the user-motion call made on the object b
Redo(call, b) ==
  CASE call.op = "motion" -> motion(b, <<call.vec[1], call.vec[2]>>, call.action)
    [] call.op = "keyMotion" -> keyMotion(b, <<call.vec[1], call.vec[2]>>, call.action)
    [] call.op = "wheel" -> wheel(b, call.value, call.inputs)
    [] call.op = "mouseMove" -> mouseMove(b, <<call.vec[1], call.vec[2]>>, call.inputs)

\* C3: a call of motion, of keyMotion with a non-zero delta, of wheel with a
\* non-zero value or of mouseMove with a button pressed, made while an
\* animation is active, returns with isAnimated() false and with current the
\* pose that the motion produces from the pose held at the time of the call;
\* updateAnim, whatever its timestamp, then leaves current where it is.
C3_MotionCancelsAnimation ==
  (UserMotionMoving(last) /\ last.wasAnimating)
    => /\ ~isAnimated(m)
       /\ m.m_current = Redo(last, AtRest(last.before)).m_current
       /\ \A ts \in Timestamps : updateAnim(m, ts, clock + TickMs).m_current = m.m_current
\* keyMotion moved the camera away from the mid-point of an animation
C3_Witness ==
  /\ last.op = "keyMotion" /\ last.wasAnimating
  /\ HasSnapshot(last.before)
  /\ CameraNe(last.before.m_current, Snapshot(last.before))
  /\ CameraNe(last.before.m_current, last.before.m_goal)
  /\ CameraNe(m.m_current, last.before.m_current)
  /\ ~isAnimated(m)
\* C3 as stated, for every argument value: any call of a user-motion entry
\* point made while an animation is active returns with isAnimated() false
C3_AnyArgumentCancels ==
  (UserMotion(last) /\ last.wasAnimating) => ~isAnimated(m)

\* the pose with its up vector normalized, as setCamera stores it
NormalizedUp(p) == [p EXCEPT !.up = Normalize(p.up)]

\* C4: after setCamera(p, instantSet = true) with p accepted by validateCamera,
\* in any state, getCamera() holds eye, ctr, fov, nearFar, orthMag and
\* projectionType of p as given and the up vector of p normalized, and
\* isAnimated() is false.
C4_InstantSetAppliesPose ==
  (last.op = "setCamera" /\ last.instantSet /\ validateCamera(last.camera))
    => getCamera(m) = NormalizedUp(last.camera) /\ ~isAnimated(m)
\* a pose with an up vector of length 2 was set instantly during an animation
C4_Witness ==
  /\ last.op = "setCamera" /\ last.instantSet /\ last.wasAnimating
  /\ last.camera = PoseLongUp
  /\ getCamera(m).up = V3(0, 1, 0)
  /\ getCamera(m).eye = PoseLongUp.eye
\* C4 as stated: getCamera() == p with the operator == of Camera
C4_InstantSetReturnsPose ==
  (last.op = "setCamera" /\ last.instantSet /\ validateCamera(last.camera))
    => CameraEq(getCamera(m), last.camera) /\ ~isAnimated(m)

\* C5: a call of setCamera, setLookat, setMatrix or fit with an accepted pose
\* returns with an animation active only if instantSet was false, the pose
\* differs from the current one and the duration is above 0; with a duration
\* of 0 the call returns with isAnimated() false.
C5_AnimatesOnlyWhenAsked ==
  (last.op \in PoseSetters /\ validateCamera(last.camera) /\ isAnimated(m))
    => /\ ~last.instantSet
       /\ CameraNe(NormalizedUp(last.camera), last.before.m_current)
       /\ FGt(m.m_duration, 0)

C7_ProjectionChangeIsInstant ==
  /\ (/\ last.op = "setCamera" /\ validateCamera(last.camera)
      /\ last.camera.projectionType # last.before.m_current.projectionType)
       => getCamera(m) = NormalizedUp(last.camera) /\ ~isAnimated(m)
  /\ isAnimated(m)
       => HasSnapshot(m) /\ Snapshot(m).projectionType = m.m_goal.projectionType
\* an orthographic pose was requested with instantSet = false and a duration
\* above 0 while a perspective animation was running
C7_Witness ==
  /\ last.op = "setCamera" /\ ~last.instantSet /\ last.wasAnimating
  /\ last.camera = PoseOrtho
  /\ last.before.m_current.projectionType = "Perspective"
  /\ FGt(m.m_duration, 0)
  /\ getCamera(m) = PoseOrtho
  /\ ~isAnimated(m)
\* C7 as stated: on return current == the requested pose
C7_ProjectionChangeReturnsPose ==
  (/\ last.op = "setCamera" /\ validateCamera(last.camera)
   /\ last.camera.projectionType # last.before.m_current.projectionType)
    => CameraEq(getCamera(m), last.camera) /\ ~isAnimated(m)

\* the left-button table of the class documentation
LeftButtonAction(mode, inputs) ==
  IF (inputs.ctrl /\ inputs.shift) \/ inputs.alt
    THEN (IF mode = "Examine" THEN "LookAround" ELSE "Orbit")
  ELSE IF inputs.shift THEN "Dolly"
  ELSE IF inputs.ctrl THEN "Pan"
  ELSE (IF mode = "Examine" THEN "Orbit" ELSE "LookAround")

\* C8: with the left button pressed mouseMove returns the action of the
\* left-button table ((ctrl and shift) or alt, then shift, then ctrl, then
\* none, each depending on the mode as documented) and the object is what
\* motion with that action makes of it, whatever the modifiers, the mode and
\* the other buttons.
C8_LeftButtonTable ==
  (last.op = "mouseMove" /\ last.inputs.lmb)
    => /\ last.ret = LeftButtonAction(last.before.m_mode, last.inputs)
       /\ m = motion(last.before, <<last.vec[1], last.vec[2]>>,
                     LeftButtonAction(last.before.m_mode, last.inputs))
\* in Fly mode the left button with ctrl and shift orbited the camera
C8_Witness ==
  /\ last.op = "mouseMove"
  /\ last.inputs.lmb /\ last.inputs.ctrl /\ last.inputs.shift /\ ~last.inputs.alt
  /\ last.before.m_mode = "Fly"
  /\ last.ret = "Orbit"
  /\ m.m_current.eye # last.before.m_current.eye
  /\ m.m_current.ctr = last.before.m_current.ctr

\* C9: with the left button not pressed, mouseMove with the middle button
\* pressed returns Pan, and with the right button pressed and the middle
\* button not pressed it returns Dolly, whatever the modifiers and the mode;
\* the object is what motion with that action makes of it.
C9_MiddlePansRightDollies ==
  (last.op = "mouseMove" /\ ~last.inputs.lmb)
    => /\ last.inputs.mmb
            => /\ last.ret = "Pan"
               /\ m = motion(last.before, <<last.vec[1], last.vec[2]>>, "Pan")
       /\ (last.inputs.rmb /\ ~last.inputs.mmb)
            => /\ last.ret = "Dolly"
               /\ m = motion(last.before, <<last.vec[1], last.vec[2]>>, "Dolly")
\* in Walk mode the middle and right buttons with shift panned the camera
C9_Witness ==
  /\ last.op = "mouseMove"
  /\ ~last.inputs.lmb /\ last.inputs.mmb /\ last.inputs.rmb /\ last.inputs.shift
  /\ last.before.m_mode = "Walk"
  /\ last.ret = "Pan"
  /\ m.m_current.eye # last.before.m_current.eye
  /\ m.m_current.ctr # last.before.m_current.ctr
\* C9 as stated, for both states of the left button
C9_MiddleAlwaysPansRightAlwaysDollies ==
  last.op = "mouseMove"
    => /\ last.inputs.mmb => last.ret = "Pan"
       /\ (last.inputs.rmb /\ ~last.inputs.mmb) => last.ret = "Dolly"

\* C10: mouseMove with no button pressed returns NoAction and changes only
\* the tracked mouse position, which becomes the supplied position: the
\* current pose, the view matrix, isAnimating, the goal, the snapshot and
\* every other member stay as they were.
C10_NoButtonTracksMouse ==
  (last.op = "mouseMove" /\ ~HasButton(last.inputs))
    => /\ last.ret = "NoAction"
       /\ m.m_mouse = <<last.vec[1], last.vec[2]>>
       /\ m = [last.before EXCEPT !.m_mouse = <<last.vec[1], last.vec[2]>>]
\* the mouse moved with no button pressed, shift held, during an animation
C10_Witness ==
  /\ last.op = "mouseMove" /\ ~HasButton(last.inputs) /\ last.inputs.shift
  /\ last.wasAnimating
  /\ isAnimated(m)
  /\ m.m_mouse = V2(0, 1)
  /\ m.m_mouse # last.before.m_mouse
  /\ m.m_current = last.before.m_current

\* C11: from a valid perspective pose, after any sequence of dolly drags and
\* unshifted wheel steps, in any mode, with or without ctrl, the distance
\* from eye to ctr is not below MIN_DISTANCE.
C11_DollyKeepsMinDistance ==
  m.m_current.projectionType = "Perspective"
    => ~LtMinDistance(Distance(m.m_current.eye, m.m_current.ctr))

\* the last call was a motion to the tracked mouse position
StillMotion ==
  /\ last.op = "motion" /\ last.action \in MotionActions
  /\ <<last.vec[1], last.vec[2]>> = last.before.m_mouse
\* the orthographic magnitudes after zoomOrthographic with a factor of 1
ClampedOrthMag(p) ==
  [p EXCEPT !.orthMag = <<FMax(p.orthMag[1], MIN_ORTHOGRAPHIC_SIZE),
                          FMax(p.orthMag[2], MIN_ORTHOGRAPHIC_SIZE)>>]

\* C12: motion to the tracked mouse position (a displacement of exactly
\* zero) with Orbit, Pan or LookAround, or with Dolly on a perspective pose,
\* leaves every field of the current pose unchanged; Dolly on an
\* orthographic pose leaves every field unchanged but orthMag, whose
\* components below MIN_ORTHOGRAPHIC_SIZE are raised to it.  In every case
\* the same motion applied again gives the same pose.
C12_ZeroMotionKeepsPose ==
  StillMotion
    => /\ (last.action # "Dolly" \/ last.before.m_current.projectionType = "Perspective")
            => m.m_current = last.before.m_current
       /\ (last.action = "Dolly" /\ last.before.m_current.projectionType = "Orthographic")
            => m.m_current = ClampedOrthMag(last.before.m_current)
       /\ motion(m, <<last.vec[1], last.vec[2]>>, last.action).m_current = m.m_current
\* a Dolly of zero displacement, with the mouse away from the origin, raised
\* an orthographic magnitude of 0.005 to 0.01 and kept the other one
C12_Witness ==
  /\ StillMotion /\ last.action = "Dolly"
  /\ last.before.m_mouse # V2(0, 0)
  /\ last.before.m_current = PoseOrthoSmall
  /\ m.m_current.orthMag = <<MIN_ORTHOGRAPHIC_SIZE, 2 * Scale>>
\* C12 as stated: every field of the pose is unchanged, for every action and
\* either projection type
C12_ZeroMotionIsNoOp ==
  StillMotion
    => /\ m.m_current = last.before.m_current
       /\ motion(m, <<last.vec[1], last.vec[2]>>, last.action).m_current = m.m_current

\* two vectors differ by no more than the rounding of a normalization
DirTolerance == Scale \div 500
NearVec(a, b) == \A i \in 1..3 : Abs(a[i] - b[i]) <= DirTolerance
ViewDirection(p) == Normalize(VSub(p.ctr, p.eye))
BoxCenter(call) == VScale(Scale \div 2, VAdd(call.vec, call.boxMax))
\* the last call fitted the bounding sphere of a box of non-zero size at once
\* and the pose was accepted
SphereFit ==
  /\ last.op = "fit" /\ last.instantSet /\ last.value = 0
  /\ last.vec # last.boxMax
  /\ validateCamera(last.before.m_current)
  /\ validateCamera(last.camera)

\* C13: after fit(boxMin, boxMax, instantFit = true, tight = false,
\* aspect = 1) on a valid pose and a box of non-zero size, ctr is the centre
\* of the box and the viewing direction is the direction from the previous
\* eye to the centre of the box: it is the previous viewing direction when
\* the centre of the box lies on the previous line of sight, in front of the
\* eye.  up (normalized), fov, nearFar, orthMag and the projection type are
\* as before.
C13_FitLooksAtBox ==
  SphereFit
    => /\ m.m_current.ctr = BoxCenter(last)
       /\ NearVec(ViewDirection(m.m_current),
                  Normalize(VSub(BoxCenter(last), last.before.m_current.eye)))
       /\ NearVec(Normalize(VSub(BoxCenter(last), last.before.m_current.eye)),
                  ViewDirection(last.before.m_current))
            => NearVec(ViewDirection(m.m_current), ViewDirection(last.before.m_current))
       /\ m.m_current = [NormalizedUp(last.before.m_current) EXCEPT
                           !.eye = m.m_current.eye, !.ctr = m.m_current.ctr]
\* the default pose was fitted to the cube about (5, 0, 0): the camera now
\* looks at (5, 0, 0) along a direction that is not the previous one
C13_Witness ==
  /\ SphereFit
  /\ last.before.m_current = DefaultCamera
  /\ BoxCenter(last) = V3(5, 0, 0)
  /\ m.m_current.ctr = V3(5, 0, 0)
  /\ ~NearVec(ViewDirection(m.m_current), ViewDirection(last.before.m_current))
\* C13 as stated: the viewing direction is the same as before the call, for
\* every box position
C13_FitKeepsDirection ==
  SphereFit => NearVec(ViewDirection(m.m_current), ViewDirection(last.before.m_current))

\* two lengths differ by no more than the rounding of the rotation: one
\* hundredth of the length and two units of the last place
NearLength(a, b) == Abs(a - b) <= (b \div 100) + DirTolerance
SightLength(p) == Distance(p.eye, p.ctr)

\* C14: motion with the Orbit or the LookAround action leaves the distance
\* from eye to ctr as it was, within the rounding of the arithmetic, whether
\* the vertical rotation was applied or rejected at the pole (and when the
\* orbit is degenerate, nothing moves); Orbit leaves ctr where it was and
\* LookAround leaves eye where it was.
C14_OrbitKeepsRadius ==
  (last.op = "motion" /\ last.action \in {"Orbit", "LookAround"})
    => /\ NearLength(SightLength(m.m_current), SightLength(last.before.m_current))
       /\ last.action = "Orbit" => m.m_current.ctr = last.before.m_current.ctr
       /\ last.action = "LookAround" => m.m_current.eye = last.before.m_current.eye
\* from the default pose an Orbit drag of a quarter of a turn upwards, which
\* would carry the eye over the pole, left the eye on the diagonal where it
\* was: the vertical rotation was rejected
C14_Witness ==
  /\ last.op = "motion" /\ last.action = "Orbit"
  /\ last.before.m_current = DefaultCamera
  /\ last.before.m_mouse = V2(0, 0)
  /\ last.vec = <<0, Scale \div 4, 0>>
  /\ NearVec(Normalize(m.m_current.eye), Normalize(DefaultCamera.eye))
  /\ NearLength(SightLength(m.m_current), SightLength(DefaultCamera))

\* C15: for every valid pose p, setFromString of the text getString(p)
\* returns true and leaves the object with every field (eye, ctr, up, fov,
\* nearFar, orthMag, projectionType) holding the value of the field of p,
\* whatever the fields of the object held before.
C15_StringRoundTrip ==
  \A p \in StringPoses :
    (last.op = "setFromString" /\ last.text = getString(p))
      => last.ret = "true" /\ last.camera = p
\* an object that held PoseLongUp read the text of PoseFraction, which
\* differs from it in every field
C15_Witness ==
  /\ last.op = "setFromString"
  /\ last.object = PoseLongUp
  /\ last.text = getString(PoseFraction)
  /\ last.camera = PoseFraction
  /\ \A f \in DOMAIN PoseFraction : PoseLongUp[f] # PoseFraction[f]

\* C16: updateAnim called while isAnimated() is false, with a timestamp or
\* with none (the system clock is read), changes no member of the object:
\* current, goal, snapshot, view matrix, start time and isAnimating are as
\* they were.
C16_IdleUpdateChangesNothing ==
  (last.op = "updateAnim" /\ ~last.wasAnimating) => m = last.before
\* with PoseUnit set instantly and the system clock advanced, updateAnim()
\* without a timestamp was called on the idle object
C16_Witness ==
  /\ last.op = "updateAnim" /\ ~last.wasAnimating
  /\ last.value = -1
  /\ last.now > ClockStart
  /\ last.before.m_current = PoseUnit
  /\ m = last.before

\* the call was one that the claim names as rejected
RejectedSetting ==
  \/ last.op = "setWindowSize" /\ (last.vec[1] = 0 \/ last.vec[2] = 0)
  \/ last.op = "setClipPlanes" /\ (FLe(last.vec[1], 0) \/ FLe(last.vec[2], last.vec[1]))
  \/ last.op = "setOrthographicMagnitudes" /\ (FLe(last.vec[1], 0) \/ FLe(last.vec[2], 0))
  \/ last.op = "setAnimationDuration" /\ FLt(last.value, 0)
RejectedSettingChangesNothing == RejectedSetting => m = last.before
WindowSizePositive == m.m_windowSize[1] > 0 /\ m.m_windowSize[2] > 0

\* C17: setWindowSize with a zero width or height, setClipPlanes with near
\* <= 0 or far <= near, setOrthographicMagnitudes with a component <= 0 and
\* setAnimationDuration with a negative value leave the object unchanged,
\* and in every reachable state both components of the window size are
\* positive and the animation duration is >= 0.
C17_SettingsStayValid ==
  /\ RejectedSettingChangesNothing
  /\ WindowSizePositive
  /\ FGe(m.m_duration, 0)

\* C18: in every reachable state MIN_FOV <= current.fov <= MAX_FOV, after
\* any sequence of pose sets, setFov, wheel steps with shift, projection
\* conversions and animation ticks, in the middle of an animation too.
C18_FovInRange == FGe(m.m_current.fov, MIN_FOV) /\ FLe(m.m_current.fov, MAX_FOV)

\* C19: in every reachable state the clip planes of the current pose have
\* near > 0 and far > near, and both orthographic magnitudes are > 0,
\* whatever public calls produced the state.
C19_ClipAndMagnitudesPositive ==
  /\ FGt(m.m_current.nearFar[1], 0)
  /\ FGt(m.m_current.nearFar[2], m.m_current.nearFar[1])
  /\ FGt(m.m_current.orthMag[1], 0)
  /\ FGt(m.m_current.orthMag[2], 0)

\* values of the system clock at the start of an animation, and the
\* timestamps a caller supplies
StartClocks == {ClockStart, ClockStart + TickMs}
SuppliedTimestamps == Timestamps \ {-1}
\* the run that made the same calls with the system clock at c when the
\* last call, a setCamera, was made, followed by updateAnim(ts)
TwinRun(c, ts) ==
  updateAnim(setCamera(last.before, last.camera, last.instantSet, c), ts, c)

\* C20: an animation driven by supplied timestamps is deterministic: after
\* the setCamera that starts it and an updateAnim with a supplied timestamp,
\* the current pose and isAnimated() are the same whatever the system clock
\* read when the animation was started (timestamps no more than MaxLagMs
\* before either start are compared).
C20_ClockIndependent ==
  (last.op = "setCamera" /\ ~last.instantSet /\ isAnimated(m))
    => \A c \in StartClocks, ts \in SuppliedTimestamps :
         (ts + MaxLagMs >= c /\ ts + MaxLagMs >= m.m_startTime)
           => /\ TwinRun(c, ts).m_current = updateAnim(m, ts, clock).m_current
              /\ isAnimated(TwinRun(c, ts)) = isAnimated(updateAnim(m, ts, clock))

\* the last call was a wheel step that is not zero, with shift as given
WheelStepWith(shift) == last.op = "wheel" /\ FNe(last.value, 0) /\ last.inputs.shift = shift
\* value * |value| / window width of that step
WheelDelta ==
  FDiv(FMul(last.value, FAbs(last.value)), last.before.m_windowSize[1] * Scale)
ScaledMagnitude(mag) == FMax(FMul(mag, FAdd(Scale, WheelDelta)), MIN_ORTHOGRAPHIC_SIZE)

\* C21: a wheel step that is not zero, with shift held, leaves eye and ctr
\* where they were; in perspective projection fov becomes fov + value clamped
\* to MIN_FOV..MAX_FOV and orthMag is unchanged; in orthographic projection
\* both half-extents are multiplied by the same factor 1 + value * |value| /
\* width and kept at or above the minimum size, and fov is unchanged.
\* Without shift the pose is the one dolly gives and fov is unchanged.
C21_ShiftWheelZooms ==
  /\ WheelStepWith(TRUE)
       => /\ m.m_current.eye = last.before.m_current.eye
          /\ m.m_current.ctr = last.before.m_current.ctr
          /\ m.m_current.up = last.before.m_current.up
          /\ IF last.before.m_current.projectionType = "Perspective"
               THEN /\ m.m_current.fov =
                         FMin(FMax(FAdd(last.before.m_current.fov, last.value), MIN_FOV), MAX_FOV)
                    /\ m.m_current.orthMag = last.before.m_current.orthMag
               ELSE /\ m.m_current.fov = last.before.m_current.fov
                    /\ m.m_current.orthMag =
                         <<ScaledMagnitude(last.before.m_current.orthMag[1]),
                           ScaledMagnitude(last.before.m_current.orthMag[2])>>
  /\ WheelStepWith(FALSE)
       => /\ m.m_current =
               dolly(last.before, <<WheelDelta, WheelDelta>>, last.inputs.ctrl).m_current
          /\ m.m_current.fov = last.before.m_current.fov
\* half a degree below MAX_FOV a shifted step of one degree stopped at
\* MAX_FOV, and the eye stayed where it was
C21_Witness ==
  /\ WheelStepWith(TRUE)
  /\ last.before.m_current = PoseWide
  /\ last.value = Scale
  /\ m.m_current = [PoseWide EXCEPT !.fov = MAX_FOV]

\* C22: every reachable current pose has only finite components in eye, ctr,
\* up and fov, after any sequence of accepted pose requests, motions and
\* animation ticks, the degenerate geometric cases included.
C22_PoseFinite ==
  /\ isValidPosition(m.m_current.eye)
  /\ isValidPosition(m.m_current.ctr)
  /\ isValidPosition(m.m_current.up)
  /\ IsFinite(m.m_current.fov)

\* x lies between a and b, within the rounding of the interpolation
Between(x, a, b) ==
  \/ FLe(FSub(a, DirTolerance), x) /\ FLe(x, FAdd(b, DirTolerance))
  \/ FLe(FSub(b, DirTolerance), x) /\ FLe(x, FAdd(a, DirTolerance))
BetweenVec(x, a, b) == \A i \in DOMAIN x : Between(x[i], a[i], b[i])

\* C23: the progress of an animation tick is kept within 0..1, so after a
\* tick in the middle of an animation, whatever timestamp was supplied
\* (one before the recorded start time too), ctr lies between snapshot.ctr
\* and goal.ctr, and nearFar and orthMag between their snapshot and goal
\* values.
C23_TickStaysBetween ==
  (last.op = "updateAnim" /\ last.wasAnimating /\ isAnimated(m) /\ HasSnapshot(m))
    => /\ BetweenVec(m.m_current.ctr, Snapshot(m).ctr, m.m_goal.ctr)
       /\ BetweenVec(m.m_current.nearFar, Snapshot(m).nearFar, m.m_goal.nearFar)
       /\ BetweenVec(m.m_current.orthMag, Snapshot(m).orthMag, m.m_goal.orthMag)

\* the last call was a dolly of a perspective pose: a motion with the Dolly
\* action, or a wheel step without shift (ctrl keeps the centre fixed)
PerspectiveDolly ==
  /\ \/ last.op = "motion" /\ last.action = "Dolly"
     \/ last.op = "wheel" /\ ~last.inputs.shift
  /\ last.before.m_current.projectionType = "Perspective"
\* how far the call moved the eye and the centre
EyeShift == VSub(m.m_current.eye, last.before.m_current.eye)
CtrShift == VSub(m.m_current.ctr, last.before.m_current.ctr)

\* C24: a dolly of a perspective pose in Fly or Walk mode without
\* keepCenterFixed translates eye and ctr by the same vector, so ctr - eye is
\* unchanged; in Examine mode, or with keepCenterFixed (wheel with ctrl), ctr
\* stays and only eye moves.  In Walk mode the translation has no component
\* along up.
C24_DollyMovesCenterInFlyWalk ==
  PerspectiveDolly
    => /\ IF last.before.m_mode \in {"Fly", "Walk"} /\ ~last.inputs.ctrl
            THEN /\ CtrShift = EyeShift
                 /\ VSub(m.m_current.ctr, m.m_current.eye)
                      = VSub(last.before.m_current.ctr, last.before.m_current.eye)
            ELSE m.m_current.ctr = last.before.m_current.ctr
       /\ last.before.m_mode = "Walk"
            => Abs(Dot(EyeShift, last.before.m_current.up)) <= DirTolerance
       /\ m.m_current.up = last.before.m_current.up
\* in Walk mode a wheel step away from the centre moved eye and ctr together,
\* level with the ground
C24_Witness ==
  /\ PerspectiveDolly /\ last.op = "wheel" /\ ~last.inputs.ctrl
  /\ last.before.m_mode = "Walk"
  /\ last.before.m_current = DefaultCamera
  /\ EyeShift # V3(0, 0, 0)
  /\ EyeShift[2] = 0
  /\ CtrShift = EyeShift

\* the last call was a mouse pan, or a key motion with Dolly or Pan
PanOrKeyMotion ==
  \/ last.op = "motion" /\ last.action = "Pan"
  \/ last.op = "keyMotion" /\ last.action \in {"Dolly", "Pan"}

\* C25: a mouse pan and a key motion (Dolly or Pan, in any mode) translate
\* eye and ctr by the same vector: ctr - eye is what it was, and up, fov,
\* nearFar, orthMag and projectionType are unchanged.
C25_PanTranslatesBoth ==
  PanOrKeyMotion
    => /\ CtrShift = EyeShift
       /\ VSub(m.m_current.ctr, m.m_current.eye)
            = VSub(last.before.m_current.ctr, last.before.m_current.eye)
       /\ [m.m_current EXCEPT !.eye = V3(0, 0, 0), !.ctr = V3(0, 0, 0)]
            = [last.before.m_current EXCEPT !.eye = V3(0, 0, 0), !.ctr = V3(0, 0, 0)]
\* a mouse pan in Fly mode moved the eye of PoseUnit, and the centre with it
C25_Witness ==
  /\ last.op = "motion" /\ last.action = "Pan"
  /\ last.before.m_mode = "Fly"
  /\ last.before.m_current = PoseUnit
  /\ EyeShift # V3(0, 0, 0)
  /\ CtrShift = EyeShift

\* the last call was the conversion to the projection target
Converted(op, target) ==
  /\ last.op = op
  /\ IF last.before.m_current.projectionType = target THEN m = last.before
     ELSE /\ m.m_current.projectionType = target
          /\ m.m_current.eye = last.before.m_current.eye
          /\ m.m_current.ctr = last.before.m_current.ctr
          /\ m.m_current.up = last.before.m_current.up
ConversionKeepsView ==
  /\ last.op = "convertToPerspective" => Converted("convertToPerspective", "Perspective")
  /\ last.op = "convertToOrthographic" => Converted("convertToOrthographic", "Orthographic")
PerspectiveFovClamped ==
  last.op = "convertToPerspective"
    => FGe(m.m_current.fov, MIN_FOV) /\ FLe(m.m_current.fov, MAX_FOV)

\* C26: convertToPerspective and convertToOrthographic change nothing when
\* the pose is already in the target projection; otherwise the projection
\* type becomes the target, eye, ctr and up are unchanged, fov is within
\* MIN_FOV..MAX_FOV after convertToPerspective, and both orthographic
\* half-extents are at or above the minimum orthographic size after
\* convertToOrthographic.
C26_ConversionsClamp ==
  /\ ConversionKeepsView
  /\ PerspectiveFovClamped
  /\ last.op = "convertToOrthographic"
       => /\ FGe(m.m_current.orthMag[1], MIN_ORTHOGRAPHIC_SIZE)
          /\ FGe(m.m_current.orthMag[2], MIN_ORTHOGRAPHIC_SIZE)

\* the pose p without its eye, and without its ctr
WithoutEye(p) == [p EXCEPT !.eye = V3(0, 0, 0)]
WithoutCtr(p) == [p EXCEPT !.ctr = V3(0, 0, 0)]
\* the sightline of p is shorter than epsilon, or parallel to up
DegenerateOrbit(p) ==
  \/ LtEpsilon(SightLength(p))
  \/ LtEpsilon(Length(Cross(p.up, Normalize(VSub(p.eye, p.ctr)))))

\* C27: a motion with the Orbit action changes no field of the pose but
\* eye, and one with the LookAround action none but ctr; when the radius is
\* below epsilon or the sightline is parallel to up, no field of the pose
\* changes at all.
C27_OrbitMovesOnlyEye ==
  /\ (last.op = "motion" /\ last.action = "Orbit")
       => WithoutEye(m.m_current) = WithoutEye(last.before.m_current)
  /\ (last.op = "motion" /\ last.action = "LookAround")
       => WithoutCtr(m.m_current) = WithoutCtr(last.before.m_current)
  /\ (last.op = "motion" /\ last.action \in {"Orbit", "LookAround"}
        /\ DegenerateOrbit(last.before.m_current))
       => m.m_current = last.before.m_current
\* a LookAround drag moved the centre of PoseUnit and nothing else
C27_Witness ==
  /\ last.op = "motion" /\ last.action = "LookAround"
  /\ last.before.m_current = PoseUnit
  /\ m.m_current.ctr # PoseUnit.ctr
  /\ WithoutCtr(m.m_current) = WithoutCtr(PoseUnit)

\* the animation in progress is the one that was in progress before the
\* last call: same snapshot, same goal, same start
SameAnimation ==
  /\ last.before.m_isAnimating
  /\ m.m_snapshot = last.before.m_snapshot
  /\ m.m_goal = last.before.m_goal
  /\ m.m_startTime = last.before.m_startTime
\* the last call started the animation in progress: the snapshot is the pose
\* the call found, and the curve runs from its eye to the eye of the goal
StartedByLastCall ==
  /\ m.m_snapshot = <<last.before.m_current>>
  /\ m.m_bezier[1] = last.before.m_current.eye
  /\ m.m_bezier[3] = m.m_goal.eye

\* C28: whenever isAnimated() is true the snapshot is present, and snapshot
\* and goal belong to the same animation: they are those of the animation that
\* was already in progress, or the last call set both.
C28_AnimatingHasSnapshot ==
  isAnimated(m) => (HasSnapshot(m) /\ (SameAnimation \/ StartedByLastCall))
\* a tick in the middle of an animation moved the pose and the animation goes on
C28_Witness ==
  /\ last.op = "updateAnim"
  /\ last.before.m_isAnimating /\ isAnimated(m)
  /\ m.m_current # last.before.m_current
  /\ m.m_current # m.m_goal


\* C29: in every state between two calls the cached view matrix is
\* lookAt(eye, ctr, up) of the current pose.
C29_MatrixFollowsPose ==
  m.m_matrix = LookAt(m.m_current.eye, m.m_current.ctr, m.m_current.up)
\* a motion moved the eye, and the matrix with it
C29_Witness ==
  /\ last.op = "motion"
  /\ m.m_current.eye # last.before.m_current.eye
  /\ m.m_matrix # last.before.m_matrix
  /\ C29_MatrixFollowsPose


\* the last call was a fit to a box of size zero, or to a box whose centre
\* is the current eye
DegenerateFit ==
  /\ last.op = "fit"
  /\ last.vec = last.boxMax \/ BoxCenter(last) = last.before.m_current.eye
\* the last call was a fit whose pose setLookat accepted
AcceptedFit == last.op = "fit" /\ validateCamera(last.camera)
\* the pose an accepted fit applies: the goal of the animation it started,
\* the current pose otherwise
FittedPose == IF isAnimated(m) THEN m.m_goal ELSE m.m_current
\* the fit kept fov, nearFar, orthMag and projectionType and set ctr to the
\* centre of the box
FitKeepsProjection ==
  /\ FittedPose.fov = last.before.m_current.fov
  /\ FittedPose.nearFar = last.before.m_current.nearFar
  /\ FittedPose.orthMag = last.before.m_current.orthMag
  /\ FittedPose.projectionType = last.before.m_current.projectionType
  /\ FittedPose.ctr = BoxCenter(last)

\* C30 (as stated): a fit to a box of size zero or to a box centred on the
\* current eye changes nothing in the manipulator, and an accepted fit keeps
\* fov, nearFar, orthMag, projectionType and up of the current pose and sets
\* ctr to the centre of the box.
C30_FitKeepsUp ==
  /\ DegenerateFit => m = last.before
  /\ AcceptedFit => (FitKeepsProjection /\ FittedPose.up = last.before.m_current.up)
\* C30 (amended): the same, with the up vector of the fitted pose being the
\* normalized up vector of the current pose.
C30_FitNormalizesUp ==
  /\ DegenerateFit => m = last.before
  /\ AcceptedFit =>
       (FitKeepsProjection /\ FittedPose.up = Normalize(last.before.m_current.up))
\* an accepted fit in the middle of an animation, where the up vector of the
\* current pose is not of unit length
C30_Witness ==
  /\ AcceptedFit
  /\ last.wasAnimating
  /\ last.before.m_current.up # Normalize(last.before.m_current.up)
  /\ m.m_current.ctr = BoxCenter(last)

=============================================================================
